---- MODULE Spec2Model ----
(***************************************************************************)
(* Model of the health-tracker web client's synchronisation engine:        *)
(* RemoteStorage (change queue, merger, sync tick), the App coordinator,   *)
(* the Symptom/Metric/Settings managers, BrowserStorage and the remote     *)
(* API as seen through the wire contract.                                  *)
(***************************************************************************)
EXTENDS Integers, Sequences, FiniteSets, TLC

VARIABLES
  clock,           \* wall clock, in milliseconds
  active,          \* the devices that run in this specification
  remote,          \* the server's tables: [symptoms, metrics], id -> row
  usedIds,         \* ids already handed out by generateId on some device
  pc,              \* per device: "off" | "idle" | "pulling" | "pushing"
  symptoms,        \* per device: SymptomManager.symptoms (id -> Symptom)
  autocompleter,   \* per device: SymptomManager.autocompleter (word -> items)
  metrics,         \* per device: MetricManager.metrics (id -> Metric)
  metricsByDate,   \* per device: MetricManager.metricsByDate (day -> metric ids)
  settings,        \* per device: SettingsManager.settings
  navigatorOnLine, \* per device: navigator.onLine
  changesToPush,   \* per device: RemoteStorage.changesToPush, in insertion order
  syncStatus,      \* per device: last value of RemoteStorage.syncStatus$
  storage,         \* per device: the persisted slots of LocalStorage
  pull,            \* per device: the readAll request of the running tick
  pushes,          \* per device: the requests of pushPendingChanges of the running tick
  ticks,           \* per device: [running, scheduled], the syncProcess calls in
                   \* progress and the delayed processStart$ emissions still to fire
  pushAllCall,     \* per device: the request of a RemoteStorage.pushAll in progress
  opCount,         \* operations so far: [user, env], bounded by MaxUserOps, MaxEnvOps
  event            \* what the last step did: the queueChange call, the pull
                   \* reconciliation or the push response it handled, with its inputs

vars == <<clock, active, remote, usedIds, pc, symptoms, autocompleter, metrics, metricsByDate, settings,
          navigatorOnLine, changesToPush, syncStatus, storage, pull, pushes,
          ticks, pushAllCall, opCount, event>>

----------------------------------------------------------------------------
(* Bounds of the model *)

MaxClock == 1000

ClockStep == 500

MaxUserOps == 3

MaxEnvOps == 1

(* Program constants *)

PULL_OVERLAP_SECONDS == 30

Devices == {"A", "B"}

SymptomIds == {"sym_1"}

MetricIds == {"met_1"}

SymptomNames == {"headache", "nausea"}

MetricNotes == {"", "2/10 - mild"}

ApiUrls == {"https://api.example"}

ApiTokens == {"token"}

(* JavaScript's undefined: a missing map entry, an unset setting *)
Undefined == [kind |-> "undefined"]

----------------------------------------------------------------------------
(* Time *)

(* new Date(): the wall clock, millisecond precision *)
newDate == clock

(* now(): the wall clock with its milliseconds set to zero *)
now == clock - (clock % 1000)

----------------------------------------------------------------------------
(* JavaScript Map, keyed by id.  MapSet..MapDelete are the unordered view  *)
(* used by the managers and the server tables; the Q operators keep the    *)
(* insertion order, which RemoteStorage.changesToPush.values() exposes.    *)

EmptyMap == [x \in {} |-> Undefined]

MapHas(m, k) == k \in DOMAIN m

MapGet(m, k) == IF k \in DOMAIN m THEN m[k] ELSE Undefined

MapSet(m, k, v) == [x \in (DOMAIN m) \cup {k} |-> IF x = k THEN v ELSE m[x]]

MapDelete(m, k) == [x \in (DOMAIN m) \ {k} |-> m[x]]

RECURSIVE SetToSeq(_)
SetToSeq(S) ==
  IF S = {} THEN <<>>
  ELSE LET x == CHOOSE y \in S : TRUE IN <<x>> \o SetToSeq(S \ {x})

MapValues(m) == [i \in 1..Len(SetToSeq(DOMAIN m)) |-> m[SetToSeq(DOMAIN m)[i]]]

QIndex(q, k) ==
  IF \E i \in 1..Len(q) : q[i].key = k
  THEN CHOOSE i \in 1..Len(q) : q[i].key = k /\ \A j \in 1..(i - 1) : q[j].key # k
  ELSE 0

QGet(q, k) == IF QIndex(q, k) = 0 THEN Undefined ELSE q[QIndex(q, k)].value

(* A list that keeps the old entry of a key next to the new one *)
QAppend(q, k, v) == Append(q, [key |-> k, value |-> v])

(* Map.prototype.set: replaces the value in place, or appends a new entry *)
QSet(q, k, v) ==
  IF QIndex(q, k) = 0
  THEN Append(q, [key |-> k, value |-> v])
  ELSE [i \in 1..Len(q) |-> IF i = QIndex(q, k) THEN [key |-> k, value |-> v] ELSE q[i]]

(* Map.prototype.delete *)
QDelete(q, k) == SelectSeq(q, LAMBDA e : e.key # k)

(* [...map.values()] *)
QValues(q) == [i \in 1..Len(q) |-> q[i].value]

----------------------------------------------------------------------------
(* ChangeToPush and the merger *)

CHANGES_CANCEL_EACH_OTHER == [kind |-> "don't process, changes cancel each other"]

(* assertNever(...): the handler is abandoned with an exception *)
assertNever == [kind |-> "assertNever"]

getChangeId(change) ==
  CASE change.kind \in {"AddSymptom", "UpdateSymptom"} -> change.symptom.id
    [] change.kind = "DeleteSymptom" -> change.id
    [] change.kind \in {"AddMetric", "UpdateMetric"} -> change.metric.id
    [] change.kind = "DeleteMetric" -> change.id

getChangeDate(change) ==
  CASE change.kind \in {"AddSymptom", "UpdateSymptom"} -> change.symptom.lastModified
    [] change.kind = "DeleteSymptom" -> change.deletionDate
    [] change.kind \in {"AddMetric", "UpdateMetric"} -> change.metric.lastModified
    [] change.kind = "DeleteMetric" -> change.deletionDate

getChangeKindCategory(change) ==
  CASE change.kind \in {"AddSymptom", "AddMetric"} -> "add"
    [] change.kind \in {"UpdateSymptom", "UpdateMetric"} -> "update"
    [] change.kind \in {"DeleteSymptom", "DeleteMetric"} -> "delete"

mergeChanges(previous, current) ==
  LET previousDate == getChangeDate(previous)
      currentDate == getChangeDate(current)
      earliest == IF previousDate < currentDate THEN previous ELSE current
      latest == IF previousDate < currentDate THEN current ELSE previous
      earliestKind == getChangeKindCategory(earliest)
      latestKind == getChangeKindCategory(latest)
  IN  CASE earliestKind = "add" /\ latestKind = "delete" -> CHANGES_CANCEL_EACH_OTHER
        [] earliestKind = "add" /\ latestKind = "update" ->
             [latest EXCEPT !.kind = earliest.kind]
        [] earliestKind = "update" /\ latestKind \in {"delete", "update"} -> latest
        [] OTHER -> assertNever

(* queueChange up to its first side effect outside the map: the new map,   *)
(* or the exception that left the map as it was.                           *)
queueChangeMap(q, change) ==
  LET id == getChangeId(change)
      previous == QGet(q, id)
  IN  IF previous = Undefined
      THEN [threw |-> FALSE, queue |-> QSet(q, id, change)]
      ELSE LET latest == mergeChanges(previous, change)
           IN  IF latest = assertNever
               THEN [threw |-> TRUE, queue |-> q]
               ELSE IF latest = CHANGES_CANCEL_EACH_OTHER
                    THEN [threw |-> FALSE, queue |-> QDelete(q, id)]
                    ELSE [threw |-> FALSE, queue |-> QSet(q, id, latest)]

----------------------------------------------------------------------------
(* BrowserStorage over LocalStorage: snapshots with dates as ISO strings *)

serializeDate(date) == [iso |-> date]

deserializeDate(raw) == raw.iso

serializeSymptom(symptom) ==
  [id |-> symptom.id, name |-> symptom.name,
   lastModified |-> serializeDate(symptom.lastModified)]

deserializeSymptom(raw) ==
  [id |-> raw.id, name |-> raw.name, lastModified |-> deserializeDate(raw.lastModified)]

serializeMetric(metric) ==
  [id |-> metric.id, symptomId |-> metric.symptomId, intensity |-> metric.intensity,
   notes |-> metric.notes, date |-> serializeDate(metric.date),
   lastModified |-> serializeDate(metric.lastModified)]

deserializeMetric(raw) ==
  [id |-> raw.id, symptomId |-> raw.symptomId, intensity |-> raw.intensity,
   notes |-> raw.notes, date |-> deserializeDate(raw.date),
   lastModified |-> deserializeDate(raw.lastModified)]

serializeChangeToPush(change) ==
  CASE change.kind \in {"AddSymptom", "UpdateSymptom"} ->
         [kind |-> change.kind, symptom |-> serializeSymptom(change.symptom)]
    [] change.kind \in {"AddMetric", "UpdateMetric"} ->
         [kind |-> change.kind, metric |-> serializeMetric(change.metric)]
    [] change.kind \in {"DeleteSymptom", "DeleteMetric"} ->
         [kind |-> change.kind, id |-> change.id,
          deletionDate |-> serializeDate(change.deletionDate)]

deserializeChangeToPush(raw) ==
  CASE raw.kind \in {"AddSymptom", "UpdateSymptom"} ->
         [kind |-> raw.kind, symptom |-> deserializeSymptom(raw.symptom)]
    [] raw.kind \in {"AddMetric", "UpdateMetric"} ->
         [kind |-> raw.kind, metric |-> deserializeMetric(raw.metric)]
    [] raw.kind \in {"DeleteSymptom", "DeleteMetric"} ->
         [kind |-> raw.kind, id |-> raw.id,
          deletionDate |-> deserializeDate(raw.deletionDate)]

(* for (const item of items) map.set(item.id, item) *)
IndexById(items) ==
  [id \in {items[i].id : i \in 1..Len(items)} |->
     items[CHOOSE i \in 1..Len(items) :
             items[i].id = id /\ \A j \in (i + 1)..Len(items) : items[j].id # id]]

saveAllSymptoms(symptomMap) == [i \in 1..Len(MapValues(symptomMap)) |-> serializeSymptom(MapValues(symptomMap)[i])]

saveAllMetrics(metricMap) == [i \in 1..Len(MapValues(metricMap)) |-> serializeMetric(MapValues(metricMap)[i])]

saveChangesToPush(q) == [i \in 1..Len(QValues(q)) |-> serializeChangeToPush(QValues(q)[i])]

saveSettings(s) ==
  [k \in DOMAIN s |-> IF k = "lastPulledAt" THEN serializeDate(s[k]) ELSE s[k]]

getSymptoms(store) == [i \in 1..Len(store.symptoms) |-> deserializeSymptom(store.symptoms[i])]

getMetrics(store) == [i \in 1..Len(store.history) |-> deserializeMetric(store.history[i])]

getChangesToPush(store) == [i \in 1..Len(store.changesToPush) |-> deserializeChangeToPush(store.changesToPush[i])]

getSettings(store) ==
  [k \in DOMAIN store.settings |->
     IF k = "lastPulledAt" THEN deserializeDate(store.settings[k]) ELSE store.settings[k]]

EmptyStorage ==
  [settings |-> EmptyMap, symptoms |-> <<>>, history |-> <<>>, changesToPush |-> <<>>]

(* What an earlier visit of the settings page left behind *)
ConfiguredStorage ==
  [EmptyStorage EXCEPT !.settings =
     [k \in {"apiUrl", "apiToken"} |->
        IF k = "apiUrl" THEN "https://api.example" ELSE "token"]]

----------------------------------------------------------------------------
(* SettingsManager and the connection status *)

setSetting(s, key, value) ==
  IF value = "" THEN MapDelete(s, key) ELSE MapSet(s, key, value)

setLastPulledAt(s, value) == MapSet(s, "lastPulledAt", value)

(* setLastPulledAt(undefined) *)
clearLastPulledAt(s) == MapDelete(s, "lastPulledAt")

apiIsInLocalhost(s) ==
  /\ MapHas(s, "apiUrl")
  /\ s["apiUrl"] \in {"http://localhost:8000", "http://127.0.0.1:8000"}

isConfigured(s) == MapHas(s, "apiUrl") /\ MapHas(s, "apiToken")

deviceIsOffline(s, onLine) == IF apiIsInLocalhost(s) THEN FALSE ELSE ~onLine

getDeviceConnectionStatus(s, onLine) ==
  IF deviceIsOffline(s, onLine) THEN "offline"
  ELSE IF ~isConfigured(s) THEN "missingConfig"
  ELSE "deviceReady"

(* The date sent as published_since *)
getLastPullDate(s) ==
  IF ~MapHas(s, "lastPulledAt") THEN 0 ELSE s["lastPulledAt"] - PULL_OVERLAP_SECONDS

----------------------------------------------------------------------------
(* Strings: the characters of the names and of the queries of the model *)

Characters(string) ==
  CASE string = "" -> <<>>
    [] string = " " -> <<" ">>
    [] string = "headache" -> <<"h", "e", "a", "d", "a", "c", "h", "e">>
    [] string = "nausea" -> <<"n", "a", "u", "s", "e", "a">>
    [] string = "h" -> <<"h">>
    [] string = "N" -> <<"N">>
    [] string = "Foo bar" -> <<"F", "o", "o", " ", "b", "a", "r">>
    [] string = "bar Baz" -> <<"b", "a", "r", " ", "B", "a", "z">>
    [] string = "foo" -> <<"f", "o", "o">>
    [] string = "fo" -> <<"f", "o">>
    [] string = "BA" -> <<"B", "A">>
    [] string = "fo ba" -> <<"f", "o", " ", "b", "a">>
    [] string = "baz  bar" -> <<"b", "a", "z", " ", " ", "b", "a", "r">>
    [] string = "foo baz" -> <<"f", "o", "o", " ", "b", "a", "z">>

(* String.prototype.toLowerCase, on the characters of the model *)
toLowerCase(chars) ==
  [i \in 1..Len(chars) |->
     CASE chars[i] = "A" -> "a"
       [] chars[i] = "B" -> "b"
       [] chars[i] = "F" -> "f"
       [] chars[i] = "N" -> "n"
       [] OTHER -> chars[i]]

(* String.prototype.split(" "): the pieces between the spaces, the empty   *)
(* ones included                                                           *)
RECURSIVE split(_)
split(chars) ==
  IF \A i \in 1..Len(chars) : chars[i] # " " THEN <<chars>>
  ELSE LET i == CHOOSE k \in 1..Len(chars) :
                  chars[k] = " " /\ \A j \in 1..(k - 1) : chars[j] # " "
       IN  <<SubSeq(chars, 1, i - 1)>> \o split(SubSeq(chars, i + 1, Len(chars)))

startsWith(word, prefix) ==
  /\ Len(prefix) <= Len(word)
  /\ SubSeq(word, 1, Len(prefix)) = prefix

----------------------------------------------------------------------------
(* AutocompleterV2: the index of the words of the items.  A word is in the *)
(* trie iff it is in the domain of wordToItems.                            *)

EmptyAutocompleter == EmptyMap

(* itemToWordMapper of the SymptomManager *)
symptomToWords(symptom) ==
  IF symptom.name = "" THEN {}
  ELSE LET pieces == split(toLowerCase(Characters(symptom.name)))
       IN  {pieces[i] : i \in 1..Len(pieces)}

autocompleterAddItem(wordToItems, item) ==
  [word \in (DOMAIN wordToItems) \cup symptomToWords(item) |->
     (IF word \in DOMAIN wordToItems THEN wordToItems[word] ELSE {})
       \cup (IF word \in symptomToWords(item) THEN {item} ELSE {})]

(* The words left without an item leave the trie *)
autocompleterRemoveItem(wordToItems, item) ==
  LET without == [word \in DOMAIN wordToItems |->
                    IF word \in symptomToWords(item) THEN wordToItems[word] \ {item}
                    ELSE wordToItems[word]]
  IN  [word \in {w \in DOMAIN without : without[w] # {}} |-> without[word]]

RECURSIVE autocompleterAddItems(_, _)
autocompleterAddItems(wordToItems, items) ==
  IF items = <<>> THEN wordToItems
  ELSE autocompleterAddItems(autocompleterAddItem(wordToItems, Head(items)), Tail(items))

autocompleterInitialize(items) == autocompleterAddItems(EmptyAutocompleter, items)

(* The non-empty pieces of a query *)
queryTokens(query) ==
  LET pieces == split(query)
  IN  {pieces[i] : i \in {j \in 1..Len(pieces) : pieces[j] # <<>>}}

(* findWords of every token, then the items of the words *)
itemsOfPrefix(wordToItems, prefix) ==
  UNION {wordToItems[word] : word \in {w \in DOMAIN wordToItems : startsWith(w, toLowerCase(prefix))}}

(* ItemAutocompleter.search of the first version: the items of any prefix *)
autocompleterSearchAnyPrefix(wordToItems, query) ==
  UNION {itemsOfPrefix(wordToItems, token) : token \in queryTokens(query)}

(* The items that every token of the query matches; none for no token *)
autocompleterSearch(wordToItems, query) ==
  IF queryTokens(query) = {} THEN {}
  ELSE {item \in UNION {wordToItems[word] : word \in DOMAIN wordToItems} :
          \A token \in queryTokens(query) : item \in itemsOfPrefix(wordToItems, token)}

----------------------------------------------------------------------------
(* SymptomManager and MetricManager *)

(* query.split(" ").filter((prefix) => !!prefix) *)
RECURSIVE nonEmpty(_)
nonEmpty(pieces) ==
  IF pieces = <<>> THEN <<>>
  ELSE IF Head(pieces) = <<>> THEN nonEmpty(Tail(pieces))
  ELSE <<Head(pieces)>> \o nonEmpty(Tail(pieces))

(* Array.prototype.join(" ") *)
RECURSIVE join(_)
join(pieces) ==
  IF pieces = <<>> THEN <<>>
  ELSE IF Len(pieces) = 1 THEN Head(pieces)
  ELSE Head(pieces) \o <<" ">> \o join(Tail(pieces))

(* SymptomManager.searchByPrefix, as the set of the symptoms of the array  *)
(* it returns (the array is sorted by name)                                *)
searchByPrefix(symptomMap, wordToItems, query) ==
  LET prefixes == nonEmpty(split(Characters(query)))
  IN  IF Len(prefixes) = 0 THEN {symptomMap[id] : id \in DOMAIN symptomMap}
      ELSE autocompleterSearch(wordToItems, join(prefixes))

(* The setter of the editor stamping with now(), whole seconds *)
setSymptomNameToTheSecond(symptom, name) ==
  [symptom EXCEPT !.name = name, !.lastModified = now]

setSymptomName(symptom, name) ==
  [symptom EXCEPT !.name = name, !.lastModified = newDate]

setMetricNotes(metric, notes) ==
  [metric EXCEPT !.notes = notes, !.lastModified = newDate]

(* for (const item of items) this.items.set(item.id, item) *)
addPulledData(m, items) ==
  [id \in (DOMAIN m) \cup DOMAIN IndexById(items) |->
     IF id \in DOMAIN IndexById(items) THEN IndexById(items)[id] ELSE m[id]]

getDay(date) == date - (date % 86400000)

getMetricDate(metric) == getDay(metric.date)

(* metricsByDate: day -> set of metric ids *)
addMetricToDateIndex(index, metric) ==
  MapSet(index, getMetricDate(metric),
         (IF MapHas(index, getMetricDate(metric))
          THEN index[getMetricDate(metric)] ELSE {}) \cup {metric.id})

(* Only defined when the day has a bucket: the code dereferences it *)
removeMetricFromDateIndex(index, metric) ==
  MapSet(index, getMetricDate(metric), index[getMetricDate(metric)] \ {metric.id})

RECURSIVE indexMetrics(_, _)
indexMetrics(index, items) ==
  IF items = <<>> THEN index
  ELSE indexMetrics(addMetricToDateIndex(index, Head(items)), Tail(items))

----------------------------------------------------------------------------
(* RemoteStorage: initialisation and the two reconciliations of a pull *)

(* RemoteStorage.initialize that drops what was persisted *)
initializeNothing(q, changes) == q

RECURSIVE initialize(_, _)
initialize(q, changes) ==
  IF changes = <<>> THEN q
  ELSE initialize(QSet(q, getChangeId(Head(changes)), Head(changes)), Tail(changes))

(* RemoteStorage.initialize: what syncStatus$ holds when it returns *)
initializeStatus(status, changes) ==
  IF Len(changes) = 0 THEN status ELSE "waitingToSync"

(* The comparison with <= in place of <: a tie would keep the queued change *)
pulledIsNotNewerThanQueued(item, changeToPush) ==
  item.lastModified <= getChangeDate(changeToPush)

(* TRUE when the pulled item is older than the change queued for its id *)
pulledIsOlderThanQueued(item, changeToPush) ==
  item.lastModified < getChangeDate(changeToPush)

(* One of the two loops over the pulled items; q is this.changesToPush *)
RECURSIVE queuedLoop(_, _, _)
queuedLoop(items, q, out) ==
  IF items = <<>> THEN [toCompareWithDomain |-> out, queue |-> q]
  ELSE LET item == Head(items)
           changeToPush == QGet(q, item.id)
       IN  IF changeToPush = Undefined
           THEN queuedLoop(Tail(items), q, out)
           ELSE IF pulledIsOlderThanQueued(item, changeToPush)
                THEN queuedLoop(Tail(items), q, out)
                ELSE queuedLoop(Tail(items), QDelete(q, item.id), Append(out, item))

comparePulledDataWithQueuedToPushData(q, pulled) ==
  IF Len(q) = 0
  THEN [symptoms |-> pulled.symptoms, metrics |-> pulled.metrics, queue |-> q]
  ELSE LET s == queuedLoop(pulled.symptoms, q, <<>>)
           m == queuedLoop(pulled.metrics, s.queue, <<>>)
       IN  [symptoms |-> s.toCompareWithDomain, metrics |-> m.toCompareWithDomain,
            queue |-> m.queue]

(* A comparison with the domain that lets every pulled item through *)
keepEveryPulled(local, pulled) == TRUE

(* TRUE when the pulled item goes to the domain: unknown locally, or not older *)
keepPulled(local, pulled) ==
  IF ~MapHas(local, pulled.id) THEN TRUE
  ELSE ~(pulled.lastModified < local[pulled.id].lastModified)

comparePulledDataWithDomainData(symptomMap, metricMap, toCompare) ==
  [symptoms |-> SelectSeq(toCompare.symptoms, LAMBDA x : keepPulled(symptomMap, x)),
   metrics |-> SelectSeq(toCompare.metrics, LAMBDA x : keepPulled(metricMap, x))]

(* A handler that treats pulled items as local updates and queues them *)
RECURSIVE handleAsLocalUpdates(_, _, _)
handleAsLocalUpdates(q, table, items) ==
  IF items = <<>> THEN q
  ELSE handleAsLocalUpdates(
         queueChangeMap(q, IF table = "symptoms"
                           THEN [kind |-> "UpdateSymptom", symptom |-> Head(items)]
                           ELSE [kind |-> "UpdateMetric", metric |-> Head(items)]).queue,
         table, Tail(items))

(* App.handleSymptomChanges / handleMetricChanges on *AddedFromExternalSource, *)
(* after addPulledData(items): the snapshot is saved and nothing is queued.    *)
handleAddedFromExternalSource(q, table, items) == q

----------------------------------------------------------------------------
(* The remote API: the server's tables and HealthTrackerApi's reading of   *)
(* the responses.  A row is [item, publishedAt].                           *)

EmptyTables == [symptoms |-> EmptyMap, metrics |-> EmptyMap]

tableOf(change) ==
  IF change.kind \in {"AddSymptom", "UpdateSymptom", "DeleteSymptom"}
  THEN "symptoms" ELSE "metrics"

payloadOf(change) ==
  IF change.kind \in {"AddSymptom", "UpdateSymptom"} THEN change.symptom ELSE change.metric

(* What the server answers to the request of a change, and its tables after *)
serve(tables, change) ==
  LET t == tableOf(change)
      id == getChangeId(change)
      exists == MapHas(tables[t], id)
      category == getChangeKindCategory(change)
      row == [item |-> payloadOf(change), publishedAt |-> clock]
  IN  CASE category = "add" /\ ~exists ->
             [response |-> "ok", tables |-> [tables EXCEPT ![t] = MapSet(@, id, row)]]
        [] category = "add" /\ exists -> [response |-> "httpError", tables |-> tables]
        [] category = "update" /\ exists ->
             [response |-> "ok", tables |-> [tables EXCEPT ![t] = MapSet(@, id, row)]]
        [] category = "update" /\ ~exists ->
             [response |-> "okWithError", tables |-> tables]
        [] category = "delete" /\ exists ->
             [response |-> "ok", tables |-> [tables EXCEPT ![t] = MapDelete(@, id)]]
        [] category = "delete" /\ ~exists -> [response |-> "notFound", tables |-> tables]

publishedSince(table, since) ==
  LET rows == SelectSeq(MapValues(table), LAMBDA r : r.publishedAt >= since)
  IN  [i \in 1..Len(rows) |-> rows[i].item]

serveGetAll(tables, since) ==
  [symptoms |-> publishedSince(tables.symptoms, since),
   metrics |-> publishedSince(tables.metrics, since)]

(* The JSON of the API: dates as ISO strings, intensities as strings *)
toISOString(date) == [iso |-> date]

symptomDomainToApi(symptom) ==
  [id |-> symptom.id, name |-> symptom.name, updated_at |-> toISOString(symptom.lastModified)]

metricDomainToApi(metric) ==
  [id |-> metric.id, symptom_id |-> metric.symptomId, date |-> toISOString(metric.date),
   updated_at |-> toISOString(metric.lastModified), intensity |-> metric.intensity,
   notes |-> metric.notes]

(* The body of a 200 of GET /get-all *)
getAllResponseBody(rows) ==
  [symptoms |-> [i \in 1..Len(rows.symptoms) |-> symptomDomainToApi(rows.symptoms[i])],
   metrics |-> [i \in 1..Len(rows.metrics) |-> metricDomainToApi(rows.metrics[i])]]

(* Date.parse: NaN for a string that is not a date *)
dateFromString(s) ==
  IF "iso" \in DOMAIN s THEN [ok |-> TRUE, value |-> s.iso]
  ELSE [ok |-> FALSE, error |-> "cannot parse into a Date"]

intensityFromString(s) ==
  IF s \in {"high", "medium", "low"} THEN [ok |-> TRUE, value |-> s]
  ELSE [ok |-> FALSE, error |-> "cannot parse into Intensity"]

symptomApiToDomain(apiSymptom) ==
  LET updatedAt == dateFromString(apiSymptom.updated_at)
  IN  IF ~updatedAt.ok THEN [ok |-> FALSE, error |-> updatedAt.error]
      ELSE [ok |-> TRUE,
            value |-> [id |-> apiSymptom.id, name |-> apiSymptom.name,
                       lastModified |-> updatedAt.value]]

metricApiToDomain(apiMetric) ==
  LET updatedAt == dateFromString(apiMetric.updated_at)
      date == dateFromString(apiMetric.date)
      intensity == intensityFromString(apiMetric.intensity)
  IN  IF ~updatedAt.ok THEN [ok |-> FALSE, error |-> updatedAt.error]
      ELSE IF ~date.ok THEN [ok |-> FALSE, error |-> date.error]
      ELSE IF ~intensity.ok THEN [ok |-> FALSE, error |-> intensity.error]
      ELSE [ok |-> TRUE,
            value |-> [id |-> apiMetric.id, symptomId |-> apiMetric.symptom_id,
                       date |-> date.value, lastModified |-> updatedAt.value,
                       intensity |-> intensity.value, notes |-> apiMetric.notes]]

(* The loops of the Ok branch of readAll: the items that decode, in order; *)
(* the error of an item that does not decode goes to a local array         *)
RECURSIVE readAllSymptoms(_)
readAllSymptoms(apiSymptoms) ==
  IF apiSymptoms = <<>> THEN <<>>
  ELSE LET decoded == symptomApiToDomain(Head(apiSymptoms))
       IN  (IF decoded.ok THEN <<decoded.value>> ELSE <<>>)
             \o readAllSymptoms(Tail(apiSymptoms))

RECURSIVE readAllMetrics(_)
readAllMetrics(apiMetrics) ==
  IF apiMetrics = <<>> THEN <<>>
  ELSE LET decoded == metricApiToDomain(Head(apiMetrics))
       IN  (IF decoded.ok THEN <<decoded.value>> ELSE <<>>)
             \o readAllMetrics(Tail(apiMetrics))

(* A readAll that gives up at the first item that does not decode *)
readAllOrNothing(data) ==
  IF /\ \A i \in 1..Len(data.symptoms) : symptomApiToDomain(data.symptoms[i]).ok
     /\ \A i \in 1..Len(data.metrics) : metricApiToDomain(data.metrics[i]).ok
  THEN [symptoms |-> readAllSymptoms(data.symptoms), metrics |-> readAllMetrics(data.metrics)]
  ELSE [symptoms |-> <<>>, metrics |-> <<>>]

(* HealthTrackerApi.readAll, the Ok branch: Ok({ symptoms, metrics }) *)
readAll(data) ==
  [symptoms |-> readAllSymptoms(data.symptoms), metrics |-> readAllMetrics(data.metrics)]

(* HealthTrackerApi.create*/update*/delete*: the Result built from a response *)
apiResult(change, response) ==
  LET category == getChangeKindCategory(change)
  IN  CASE response = "ok" -> "Ok"
        [] response = "unreachable" -> "FailedToConnectWithApi"
        [] response = "okWithError" -> "FailedToUpdate"
        [] response \in {"httpError", "notFound"} /\ category # "delete" ->
             "FailedToConnectWithApi"
        [] response = "notFound" /\ category = "delete" -> "DoesNotExist"
        [] response = "httpError" /\ category = "delete" -> "Other"

----------------------------------------------------------------------------
(* The scheduling of the ticks: syncProcess emits SyncProcessStarted, runs *)
(* innerProcess and emits SyncProcessCompleted; processStart$ re-emits     *)
(* each completion after wait_ms, and its subscriber calls syncProcess.    *)

NoTicks == [running |-> 0, scheduled |-> 0]

syncProcessStarted(t) == [t EXCEPT !.running = @ + 1]

(* A completion that reaches two delayed subscriptions *)
syncProcessCompletedTwice(t) == [running |-> t.running - 1, scheduled |-> t.scheduled + 2]

syncProcessCompleted(t) == [running |-> t.running - 1, scheduled |-> t.scheduled + 1]

(* One delayed emission of processStart$ fires *)
processStart(t) == syncProcessStarted([t EXCEPT !.scheduled = @ - 1])

----------------------------------------------------------------------------
(* Initial state: a fresh install of every device, before App.initialize *)

NoEvent == [kind |-> "none"]

Init ==
  /\ clock = 0
  /\ active = {"A"}
  /\ remote = EmptyTables
  /\ usedIds = {}
  /\ pc = [d \in Devices |-> "off"]
  /\ symptoms = [d \in Devices |-> EmptyMap]
  /\ autocompleter = [d \in Devices |-> EmptyAutocompleter]
  /\ metrics = [d \in Devices |-> EmptyMap]
  /\ metricsByDate = [d \in Devices |-> EmptyMap]
  /\ settings = [d \in Devices |-> EmptyMap]
  /\ navigatorOnLine = [d \in Devices |-> TRUE]
  /\ changesToPush = [d \in Devices |-> <<>>]
  /\ syncStatus = [d \in Devices |-> "onlineAndSynced"]
  /\ \E installed \in {EmptyStorage, ConfiguredStorage} :
       storage = [d \in Devices |-> IF d \in active THEN installed ELSE EmptyStorage]
  /\ pull = [d \in Devices |-> Undefined]
  /\ pushes = [d \in Devices |-> <<>>]
  /\ ticks = [d \in Devices |-> NoTicks]
  /\ pushAllCall = [d \in Devices |-> Undefined]
  /\ opCount = [user |-> 0, env |-> 0]
  /\ event = NoEvent

----------------------------------------------------------------------------
(* The sync tick *)

(* innerProcess without its connectivity check: every tick pulls *)
innerProcessStartWithoutCheck(s, onLine, q) ==
  [pc |-> "pulling",
   pull |-> [publishedSince |-> getLastPullDate(s), currentPullDate |-> now],
   syncStatus |-> "pulling"]

(* innerProcess up to its first await: the connectivity check and, when    *)
(* the device is ready, the start of pullLatestChanges.                    *)
innerProcessStart(s, onLine, q) ==
  IF getDeviceConnectionStatus(s, onLine) # "deviceReady"
  THEN [pc |-> "idle", pull |-> Undefined,
        syncStatus |-> IF Len(q) = 0 THEN "offline" ELSE "offlinePendingPush"]
  ELSE [pc |-> "pulling",
        pull |-> [publishedSince |-> getLastPullDate(s), currentPullDate |-> now],
        syncStatus |-> "pulling"]

(* syncProcess around innerProcess: a tick that returned before its first  *)
(* await has completed by the end of the step.                             *)
ticksAfterStart(t, started) ==
  IF started.pc = "idle" THEN syncProcessCompleted(t) ELSE t

(* App.initialize: load the persisted slots, then syncContinuously *)
AppInitialize(d) ==
  /\ pc[d] = "off"
  /\ LET loadedSettings == getSettings(storage[d])
         loadedMetrics == getMetrics(storage[d])
         loadedQueue == initialize(<<>>, getChangesToPush(storage[d]))
         started == innerProcessStart(loadedSettings, navigatorOnLine[d], loadedQueue)
     IN  /\ settings' = [settings EXCEPT ![d] = loadedSettings]
         /\ symptoms' = [symptoms EXCEPT ![d] = IndexById(getSymptoms(storage[d]))]
         /\ autocompleter' = [autocompleter EXCEPT ![d] =
                                autocompleterInitialize(getSymptoms(storage[d]))]
         /\ metrics' = [metrics EXCEPT ![d] = IndexById(loadedMetrics)]
         /\ metricsByDate' = [metricsByDate EXCEPT ![d] = indexMetrics(EmptyMap, loadedMetrics)]
         /\ changesToPush' = [changesToPush EXCEPT ![d] = loadedQueue]
         /\ pc' = [pc EXCEPT ![d] = started.pc]
         /\ pull' = [pull EXCEPT ![d] = started.pull]
         /\ syncStatus' = [syncStatus EXCEPT ![d] = started.syncStatus]
         /\ ticks' = [ticks EXCEPT ![d] = ticksAfterStart(syncProcessStarted(@), started)]
         /\ event' = [kind |-> "initialize", device |-> d,
                      persisted |-> getChangesToPush(storage[d]),
                      rehydrated |-> QValues(loadedQueue),
                      status |-> initializeStatus(syncStatus[d],
                                                  getChangesToPush(storage[d]))]
  /\ UNCHANGED <<pushAllCall, opCount, clock, active, remote, usedIds, navigatorOnLine, storage, pushes>>

(* The page is closed between two ticks: everything in memory is gone *)
Shutdown(d) ==
  /\ opCount.user < MaxUserOps
  /\ opCount' = [opCount EXCEPT !.user = @ + 1]
  /\ pc[d] = "idle"
  /\ pc' = [pc EXCEPT ![d] = "off"]
  /\ symptoms' = [symptoms EXCEPT ![d] = EmptyMap]
  /\ autocompleter' = [autocompleter EXCEPT ![d] = EmptyAutocompleter]
  /\ metrics' = [metrics EXCEPT ![d] = EmptyMap]
  /\ metricsByDate' = [metricsByDate EXCEPT ![d] = EmptyMap]
  /\ settings' = [settings EXCEPT ![d] = EmptyMap]
  /\ changesToPush' = [changesToPush EXCEPT ![d] = <<>>]
  /\ syncStatus' = [syncStatus EXCEPT ![d] = "onlineAndSynced"]
  /\ ticks' = [ticks EXCEPT ![d] = NoTicks]
  /\ pushAllCall' = [pushAllCall EXCEPT ![d] = Undefined]
  /\ event' = [kind |-> "shutdown", device |-> d]
  /\ UNCHANGED <<clock, active, remote, usedIds, navigatorOnLine, storage, pull, pushes>>

(* processStart$: the next tick, REMOTE_LOOP_WAIT seconds after the last one *)
SyncProcessStart(d) ==
  /\ ticks[d].scheduled > 0
  /\ LET started == innerProcessStart(settings[d], navigatorOnLine[d], changesToPush[d])
     IN  /\ pc' = [pc EXCEPT ![d] = started.pc]
         /\ pull' = [pull EXCEPT ![d] = started.pull]
         /\ syncStatus' = [syncStatus EXCEPT ![d] = started.syncStatus]
         /\ ticks' = [ticks EXCEPT ![d] = ticksAfterStart(processStart(@), started)]
  /\ event' = [kind |-> "syncProcessStarted", device |-> d]
  /\ UNCHANGED <<pushAllCall, opCount, clock, active, remote, usedIds, symptoms, autocompleter, metrics, metricsByDate,
                 settings, navigatorOnLine, changesToPush, storage, pushes>>

(* The changes of pushPendingChanges taken from the queue as it was when   *)
(* the readAll response arrived, before the reconciliation                 *)
changesQueuedAtThePull(queueAtPull, reconciled) == queueAtPull

(* const changes = [...this.changesToPush.values()]: the queue at the call *)
(* of pushPendingChanges, which the reconciliation has gone through        *)
changesOfPushPendingChanges(queueAtPull, reconciled) == reconciled

(* pushPendingChanges up to its await: one request per queued change, all  *)
(* started together; every API method first checks the configuration.     *)
startPushes(s, q) ==
  IF isConfigured(s)
  THEN [i \in 1..Len(q) |-> [change |-> q[i].value, result |-> "pending"]]
  ELSE [i \in 1..Len(q) |-> [change |-> q[i].value, result |-> "MissingConfig"]]

allSettled(requests) == \A i \in 1..Len(requests) : requests[i].result # "pending"

(* The Results that pushPendingChanges returns, one per request *)
resultsOf(requests) == [i \in 1..Len(requests) |-> requests[i].result]

(* The match{} of a push: dequeueChange on Ok only, a delete answered with *)
(* "not found" left in the queue                                           *)
handlerDequeuesOnOkOnly(result) == result = "Ok"

(* The match{} of a push: dequeueChange and Ok(null) on Ok, and on a       *)
(* delete that the API reports as not existing                             *)
handlerDequeues(result) == result \in {"Ok", "DoesNotExist"}

(* The end of innerProcess without its onlineAndSynced *)
statusAfterPushNeverSynced(requests) == "onlineButSyncFailed"

(* The loop of innerProcess over the results of pushPendingChanges *)
statusAfterPush(requests) ==
  IF \E i \in 1..Len(requests) : requests[i].result = "FailedToConnectWithApi"
  THEN "onlineButSyncFailed" ELSE "onlineAndSynced"

(* The tap of a successful readAll, with the instant the response arrived *)
(* in place of the one recorded before the request                         *)
tapPulledAtArrival(s, currentPullDate) == setLastPulledAt(s, now)

(* pullLatestChanges, the tap of a successful readAll *)
tapPulled(s, currentPullDate) == setLastPulledAt(s, currentPullDate)

(* A failed readAll after which the pull is recorded all the same *)
PullFailedAndRecorded(d, response) ==
  /\ pc[d] = "pulling"
  /\ response \in {"unreachable", "httpError"}
  /\ pc' = [pc EXCEPT ![d] = "idle"]
  /\ pull' = [pull EXCEPT ![d] = Undefined]
  /\ syncStatus' = [syncStatus EXCEPT ![d] = "onlineButSyncFailed"]
  /\ ticks' = [ticks EXCEPT ![d] = syncProcessCompleted(@)]
  /\ settings' = [settings EXCEPT ![d] = tapPulled(@, pull[d].currentPullDate)]
  /\ storage' = [storage EXCEPT ![d].settings = saveSettings(settings'[d])]
  /\ event' = [kind |-> "pullFailed", device |-> d,
               error |-> IF response = "unreachable"
                         THEN "FailedToConnectWithApi" ELSE "FailedToGetAll"]
  /\ UNCHANGED <<pushAllCall, opCount, clock, active, remote, usedIds, symptoms, autocompleter, metrics, metricsByDate,
                 navigatorOnLine, changesToPush, pushes>>

(* readAll failed: innerProcess returns after reporting the failure *)
PullFailed(d, response) ==
  /\ pc[d] = "pulling"
  /\ response \in {"unreachable", "httpError"}
  /\ pc' = [pc EXCEPT ![d] = "idle"]
  /\ pull' = [pull EXCEPT ![d] = Undefined]
  /\ syncStatus' = [syncStatus EXCEPT ![d] = "onlineButSyncFailed"]
  /\ ticks' = [ticks EXCEPT ![d] = syncProcessCompleted(@)]
  /\ event' = [kind |-> "pullFailed", device |-> d,
               error |-> IF response = "unreachable"
                         THEN "FailedToConnectWithApi" ELSE "FailedToGetAll"]
  /\ UNCHANGED <<pushAllCall, opCount, clock, active, remote, usedIds, symptoms, autocompleter, metrics, metricsByDate,
                 settings, navigatorOnLine, changesToPush, storage, pushes>>

(* readAll got a 200 with the body `data`: innerProcess from the first     *)
(* await to the second                                                     *)
ReadAllAnswered(d, data) ==
  /\ pc[d] = "pulling"
  /\ \E pulled \in {readAll(data)} :
     LET newSettings == tapPulled(settings[d], pull[d].currentPullDate)
         toCompareWithDomain ==
           comparePulledDataWithQueuedToPushData(changesToPush[d], pulled)
         toShareWithDomain ==
           comparePulledDataWithDomainData(symptoms[d], metrics[d], toCompareWithDomain)
         newSymptoms == IF Len(toShareWithDomain.symptoms) > 0
                        THEN addPulledData(symptoms[d], toShareWithDomain.symptoms)
                        ELSE symptoms[d]
         newMetrics == IF Len(toShareWithDomain.metrics) > 0
                       THEN addPulledData(metrics[d], toShareWithDomain.metrics)
                       ELSE metrics[d]
         newQueue ==
           handleAddedFromExternalSource(
             handleAddedFromExternalSource(
               toCompareWithDomain.queue, "symptoms", toShareWithDomain.symptoms),
             "metrics", toShareWithDomain.metrics)
         requests == startPushes(newSettings,
                                 changesOfPushPendingChanges(changesToPush[d], newQueue))
     IN  /\ settings' = [settings EXCEPT ![d] = newSettings]
         /\ changesToPush' = [changesToPush EXCEPT ![d] = newQueue]
         /\ symptoms' = [symptoms EXCEPT ![d] = newSymptoms]
         /\ UNCHANGED autocompleter
         /\ metrics' = [metrics EXCEPT ![d] = newMetrics]
         /\ storage' = [storage EXCEPT ![d] =
              [@ EXCEPT !.settings = saveSettings(newSettings),
                        !.symptoms = IF Len(toShareWithDomain.symptoms) > 0
                                     THEN saveAllSymptoms(newSymptoms) ELSE @,
                        !.history = IF Len(toShareWithDomain.metrics) > 0
                                    THEN saveAllMetrics(newMetrics) ELSE @]]
         /\ IF allSettled(requests)
            THEN /\ pc' = [pc EXCEPT ![d] = "idle"]
                 /\ pushes' = [pushes EXCEPT ![d] = <<>>]
                 /\ syncStatus' = [syncStatus EXCEPT ![d] = statusAfterPush(requests)]
                 /\ ticks' = [ticks EXCEPT ![d] = syncProcessCompleted(@)]
            ELSE /\ pc' = [pc EXCEPT ![d] = "pushing"]
                 /\ pushes' = [pushes EXCEPT ![d] = requests]
                 /\ syncStatus' = [syncStatus EXCEPT ![d] = "pulling"]
                 /\ UNCHANGED ticks
         /\ event' = [kind |-> "pulled", device |-> d, pulled |-> pulled,
                      completed |-> allSettled(requests), results |-> resultsOf(requests),
                      queueBefore |-> changesToPush[d],
                      symptomsBefore |-> symptoms[d], metricsBefore |-> metrics[d],
                      toCompareWithDomain |-> [symptoms |-> toCompareWithDomain.symptoms,
                                               metrics |-> toCompareWithDomain.metrics],
                      toShareWithDomain |-> toShareWithDomain,
                      afterInitialize |-> event.kind = "initialize" /\ event.device = d,
                      pushed |-> [i \in 1..Len(requests) |-> requests[i].change],
                      data |-> data]
  /\ pull' = [pull EXCEPT ![d] = Undefined]
  /\ UNCHANGED <<pushAllCall, opCount, clock, active, remote, usedIds, metricsByDate, navigatorOnLine>>

(* readAll succeeded, with what the server holds *)
PullSucceeded(d) ==
  /\ pc[d] = "pulling"
  /\ \E data \in {getAllResponseBody(serveGetAll(remote, pull[d].publishedSince))} :
       ReadAllAnswered(d, data)

(* The response to the request of pushes[d][i], and its match{} handler;   *)
(* the last response also ends the tick.                                   *)
PushResponse(d, i, response) ==
  /\ pc[d] = "pushing"
  /\ i \in 1..Len(pushes[d])
  /\ pushes[d][i].result = "pending"
  /\ LET change == pushes[d][i].change
         served == serve(remote, change)
         result == apiResult(change, response)
         dequeues == handlerDequeues(result)
         requests == [pushes[d] EXCEPT ![i].result = IF dequeues THEN "Ok" ELSE result]
         newQueue == IF dequeues THEN QDelete(changesToPush[d], getChangeId(change))
                     ELSE changesToPush[d]
     IN  /\ response \in {served.response, "unreachable", "httpError"}
         /\ remote' = IF response = served.response THEN served.tables ELSE remote
         /\ changesToPush' = [changesToPush EXCEPT ![d] = newQueue]
         /\ storage' = [storage EXCEPT ![d].changesToPush =
                          IF dequeues THEN saveChangesToPush(newQueue) ELSE @]
         /\ IF allSettled(requests)
            THEN /\ pc' = [pc EXCEPT ![d] = "idle"]
                 /\ pushes' = [pushes EXCEPT ![d] = <<>>]
                 /\ syncStatus' = [syncStatus EXCEPT ![d] = statusAfterPush(requests)]
                 /\ ticks' = [ticks EXCEPT ![d] = syncProcessCompleted(@)]
            ELSE /\ pushes' = [pushes EXCEPT ![d] = requests]
                 /\ UNCHANGED <<pc, syncStatus, ticks>>
         /\ event' = [kind |-> "pushResponse", device |-> d, change |-> change,
                      result |-> result,
                      completed |-> allSettled(requests), results |-> resultsOf(requests),
                      queuedBefore |-> QGet(changesToPush[d], getChangeId(change)),
                      queuedAfter |-> QGet(newQueue, getChangeId(change))]
  /\ UNCHANGED <<pushAllCall, opCount, clock, active, usedIds, symptoms, autocompleter, metrics, metricsByDate, settings,
                 navigatorOnLine, pull>>

----------------------------------------------------------------------------
(* User operations: a manager call, and the App handler of its event       *)
(* (snapshot first, then RemoteStorage.queueChange)                        *)

MetricIntensities == {"medium"}

(* The App handler: saveAll* into `slot`, then queueChange(change).  An    *)
(* exception in queueChange ends the handler before the queue is saved.    *)
QueueChange(d, change, slot, snapshot) ==
  LET queued == queueChangeMap(changesToPush[d], change)
  IN  /\ changesToPush' = [changesToPush EXCEPT ![d] = queued.queue]
      /\ storage' = [storage EXCEPT ![d] =
           [@ EXCEPT ![slot] = snapshot,
                     !.changesToPush = IF queued.threw THEN @
                                       ELSE saveChangesToPush(queued.queue)]]
      /\ syncStatus' = [syncStatus EXCEPT ![d] =
                          IF queued.threw THEN @ ELSE "waitingToSync"]
      /\ event' = [kind |-> "queueChange", device |-> d,
                   previous |-> QGet(changesToPush[d], getChangeId(change)),
                   current |-> change, threw |-> queued.threw,
                   queuedAfter |-> QGet(queued.queue, getChangeId(change))]

AddSymptom(d, name) ==
  /\ opCount.user < MaxUserOps
  /\ opCount' = [opCount EXCEPT !.user = @ + 1]
  /\ pc[d] # "off"
  /\ \E id \in SymptomIds \ usedIds :
       LET symptom == [id |-> id, name |-> name, lastModified |-> now]
           newSymptoms == MapSet(symptoms[d], id, symptom)
       IN  /\ symptoms' = [symptoms EXCEPT ![d] = newSymptoms]
           /\ autocompleter' = [autocompleter EXCEPT ![d] = autocompleterAddItem(@, symptom)]
           /\ usedIds' = usedIds \cup {id}
           /\ QueueChange(d, [kind |-> "AddSymptom", symptom |-> symptom],
                          "symptoms", saveAllSymptoms(newSymptoms))
  /\ UNCHANGED <<pushAllCall, ticks, clock, active, remote, pc, metrics, metricsByDate, settings,
                 navigatorOnLine, pull, pushes>>

(* The editor's draft: the stored symptom, or that symptom renamed *)
symptomDrafts(symptom) ==
  {symptom} \cup {setSymptomName(symptom, name) : name \in SymptomNames}

UpdateSymptom(d, id) ==
  /\ opCount.user < MaxUserOps
  /\ opCount' = [opCount EXCEPT !.user = @ + 1]
  /\ pc[d] # "off"
  /\ MapHas(symptoms[d], id)
  /\ \E updated \in symptomDrafts(symptoms[d][id]) :
       LET newSymptoms == MapSet(symptoms[d], id, updated)
       IN  /\ symptoms' = [symptoms EXCEPT ![d] = newSymptoms]
           /\ autocompleter' = [autocompleter EXCEPT ![d] =
                autocompleterAddItem(autocompleterRemoveItem(@, symptoms[d][id]), updated)]
           /\ QueueChange(d, [kind |-> "UpdateSymptom", symptom |-> updated],
                          "symptoms", saveAllSymptoms(newSymptoms))
  /\ UNCHANGED <<pushAllCall, ticks, clock, active, remote, usedIds, pc, metrics, metricsByDate, settings,
                 navigatorOnLine, pull, pushes>>

isSymptomUsedInHistory(metricMap, symptomId) ==
  \E id \in DOMAIN metricMap : metricMap[id].symptomId = symptomId

(* handleRemoveSymptom refuses a symptom that the history uses *)
DeleteSymptom(d, id) ==
  /\ opCount.user < MaxUserOps
  /\ opCount' = [opCount EXCEPT !.user = @ + 1]
  /\ pc[d] # "off"
  /\ MapHas(symptoms[d], id)
  /\ ~isSymptomUsedInHistory(metrics[d], id)
  /\ LET newSymptoms == MapDelete(symptoms[d], id)
     IN  /\ symptoms' = [symptoms EXCEPT ![d] = newSymptoms]
         /\ autocompleter' = [autocompleter EXCEPT ![d] =
                                autocompleterRemoveItem(@, symptoms[d][id])]
         /\ QueueChange(d, [kind |-> "DeleteSymptom", id |-> id, deletionDate |-> newDate],
                        "symptoms", saveAllSymptoms(newSymptoms))
  /\ UNCHANGED <<pushAllCall, ticks, clock, active, remote, usedIds, pc, metrics, metricsByDate, settings,
                 navigatorOnLine, pull, pushes>>

AddMetric(d, symptomId, intensity) ==
  /\ opCount.user < MaxUserOps
  /\ opCount' = [opCount EXCEPT !.user = @ + 1]
  /\ pc[d] # "off"
  /\ MapHas(symptoms[d], symptomId)
  /\ \E id \in MetricIds \ usedIds :
       LET metric == [id |-> id, symptomId |-> symptomId, intensity |-> intensity,
                      notes |-> "", date |-> now, lastModified |-> now]
           newMetrics == MapSet(metrics[d], id, metric)
       IN  /\ metrics' = [metrics EXCEPT ![d] = newMetrics]
           /\ usedIds' = usedIds \cup {id}
           /\ QueueChange(d, [kind |-> "AddMetric", metric |-> metric],
                          "history", saveAllMetrics(newMetrics))
  /\ UNCHANGED <<pushAllCall, ticks, clock, active, remote, pc, symptoms, autocompleter, metricsByDate, settings,
                 navigatorOnLine, pull, pushes>>

metricsAreEqual(a, b) ==
  /\ a.id = b.id
  /\ a.symptomId = b.symptomId
  /\ a.intensity = b.intensity
  /\ a.notes = b.notes
  /\ a.date = b.date

(* The editor's draft: the stored metric with other notes; Save is         *)
(* disabled while the draft equals the stored metric.                      *)
metricDrafts(metric) ==
  {updated \in {setMetricNotes(metric, notes) : notes \in MetricNotes} :
     ~metricsAreEqual(metric, updated)}

(* MetricManager.update dereferences the day bucket of the stored metric:  *)
(* without a bucket the call ends in a TypeError before anything changed.  *)
UpdateMetric(d, id) ==
  /\ opCount.user < MaxUserOps
  /\ opCount' = [opCount EXCEPT !.user = @ + 1]
  /\ pc[d] # "off"
  /\ MapHas(metrics[d], id)
  /\ \E updated \in metricDrafts(metrics[d][id]) :
       IF ~MapHas(metricsByDate[d], getMetricDate(metrics[d][id]))
       THEN /\ event' = [kind |-> "updateMetricThrew", device |-> d, id |-> id]
            /\ UNCHANGED <<metrics, metricsByDate, changesToPush, storage, syncStatus>>
       ELSE LET newMetrics == MapSet(metrics[d], id, updated)
            IN  /\ metrics' = [metrics EXCEPT ![d] = newMetrics]
                /\ metricsByDate' = [metricsByDate EXCEPT ![d] =
                     addMetricToDateIndex(
                       removeMetricFromDateIndex(@, metrics[d][id]), updated)]
                /\ QueueChange(d, [kind |-> "UpdateMetric", metric |-> updated],
                               "history", saveAllMetrics(newMetrics))
  /\ UNCHANGED <<pushAllCall, ticks, clock, active, remote, usedIds, pc, symptoms, autocompleter, settings,
                 navigatorOnLine, pull, pushes>>

DeleteMetric(d, id) ==
  /\ opCount.user < MaxUserOps
  /\ opCount' = [opCount EXCEPT !.user = @ + 1]
  /\ pc[d] # "off"
  /\ MapHas(metrics[d], id)
  /\ LET newMetrics == MapDelete(metrics[d], id)
     IN  /\ metrics' = [metrics EXCEPT ![d] = newMetrics]
         /\ QueueChange(d, [kind |-> "DeleteMetric", id |-> id, deletionDate |-> newDate],
                        "history", saveAllMetrics(newMetrics))
  /\ UNCHANGED <<pushAllCall, ticks, clock, active, remote, usedIds, pc, symptoms, autocompleter, metricsByDate, settings,
                 navigatorOnLine, pull, pushes>>

----------------------------------------------------------------------------
(* Settings page, the browser and the rest of the world *)

SetApiUrl(d, value) ==
  /\ opCount.user < MaxUserOps
  /\ opCount' = [opCount EXCEPT !.user = @ + 1]
  /\ pc[d] # "off"
  /\ settings' = [settings EXCEPT ![d] = setSetting(@, "apiUrl", value)]
  /\ storage' = [storage EXCEPT ![d].settings = saveSettings(settings'[d])]
  /\ event' = [kind |-> "settingsChange", device |-> d]
  /\ UNCHANGED <<pushAllCall, ticks, clock, active, remote, usedIds, pc, symptoms, autocompleter, metrics, metricsByDate,
                 navigatorOnLine, changesToPush, syncStatus, pull, pushes>>

SetApiToken(d, value) ==
  /\ opCount.user < MaxUserOps
  /\ opCount' = [opCount EXCEPT !.user = @ + 1]
  /\ pc[d] # "off"
  /\ settings' = [settings EXCEPT ![d] = setSetting(@, "apiToken", value)]
  /\ storage' = [storage EXCEPT ![d].settings = saveSettings(settings'[d])]
  /\ event' = [kind |-> "settingsChange", device |-> d]
  /\ UNCHANGED <<pushAllCall, ticks, clock, active, remote, usedIds, pc, symptoms, autocompleter, metrics, metricsByDate,
                 navigatorOnLine, changesToPush, syncStatus, pull, pushes>>

(* Settings page, handleLastPullClear: the button shows when a date is set *)
ClearLastPulledAt(d) ==
  /\ opCount.user < MaxUserOps
  /\ opCount' = [opCount EXCEPT !.user = @ + 1]
  /\ pc[d] # "off"
  /\ MapHas(settings[d], "lastPulledAt")
  /\ settings' = [settings EXCEPT ![d] = clearLastPulledAt(@)]
  /\ storage' = [storage EXCEPT ![d].settings = saveSettings(settings'[d])]
  /\ event' = [kind |-> "lastPulledAtCleared", device |-> d]
  /\ UNCHANGED <<pushAllCall, ticks, clock, active, remote, usedIds, pc, symptoms, autocompleter, metrics, metricsByDate,
                 navigatorOnLine, changesToPush, syncStatus, pull, pushes>>

SetNavigatorOnLine(d, onLine) ==
  /\ opCount.env < MaxEnvOps
  /\ opCount' = [opCount EXCEPT !.env = @ + 1]
  /\ navigatorOnLine[d] # onLine
  /\ navigatorOnLine' = [navigatorOnLine EXCEPT ![d] = onLine]
  /\ event' = [kind |-> "connectivityChange", device |-> d]
  /\ UNCHANGED <<pushAllCall, ticks, clock, active, remote, usedIds, pc, symptoms, autocompleter, metrics, metricsByDate,
                 settings, changesToPush, syncStatus, storage, pull, pushes>>

Tick ==
  /\ clock < MaxClock
  /\ clock' = clock + ClockStep
  /\ event' = NoEvent
  /\ UNCHANGED <<pushAllCall, ticks, opCount, active, remote, usedIds, pc, symptoms, autocompleter, metrics, metricsByDate, settings,
                 navigatorOnLine, changesToPush, syncStatus, storage, pull, pushes>>

(* What a client outside this specification may push at this instant *)
otherClientChanges ==
  {[kind |-> "AddSymptom", symptom |-> [id |-> id, name |-> name, lastModified |-> newDate]] :
     id \in SymptomIds \ usedIds, name \in SymptomNames}
  \cup
  {[kind |-> "UpdateSymptom",
    symptom |-> setSymptomName(remote.symptoms[id].item, name)] :
     id \in DOMAIN remote.symptoms, name \in SymptomNames}
  \cup
  {[kind |-> "UpdateMetric",
    metric |-> setMetricNotes(remote.metrics[id].item, notes)] :
     id \in DOMAIN remote.metrics, notes \in MetricNotes}
  \cup
  {[kind |-> "DeleteSymptom", id |-> id, deletionDate |-> newDate] :
     id \in DOMAIN remote.symptoms}
  \cup
  {[kind |-> "DeleteMetric", id |-> id, deletionDate |-> newDate] :
     id \in DOMAIN remote.metrics}

(* Another client's request reaches the server *)
OtherClientPush ==
  /\ opCount.env < MaxEnvOps
  /\ opCount' = [opCount EXCEPT !.env = @ + 1]
  /\ \E change \in otherClientChanges :
       /\ serve(remote, change).response = "ok"
       /\ remote' = serve(remote, change).tables
       /\ usedIds' = usedIds \cup {getChangeId(change)}
       /\ event' = [kind |-> "otherClientPush", change |-> change]
  /\ UNCHANGED <<pushAllCall, ticks, clock, active, pc, symptoms, autocompleter, metrics, metricsByDate, settings,
                 navigatorOnLine, changesToPush, syncStatus, storage, pull, pushes>>

ApiResponses == {"ok", "okWithError", "notFound", "httpError", "unreachable"}

Next ==
  \/ \E d \in active : AppInitialize(d)
  \/ \E d \in active : Shutdown(d)
  \/ \E d \in active : SyncProcessStart(d)
  \/ \E d \in active : \E response \in ApiResponses : PullFailed(d, response)
  \/ \E d \in active : PullSucceeded(d)
  \/ \E d \in active : \E i \in 1..2 : \E response \in ApiResponses :
       PushResponse(d, i, response)
  \/ \E d \in active : \E name \in SymptomNames : AddSymptom(d, name)
  \/ \E d \in active : \E id \in SymptomIds : UpdateSymptom(d, id)
  \/ \E d \in active : \E id \in SymptomIds : DeleteSymptom(d, id)
  \/ \E d \in active : \E id \in SymptomIds : \E intensity \in MetricIntensities :
       AddMetric(d, id, intensity)
  \/ \E d \in active : \E id \in MetricIds : UpdateMetric(d, id)
  \/ \E d \in active : \E id \in MetricIds : DeleteMetric(d, id)
  \/ \E d \in active : \E value \in ApiUrls \cup {""} : SetApiUrl(d, value)
  \/ \E d \in active : \E value \in ApiTokens \cup {""} : SetApiToken(d, value)
  \/ \E d \in active : ClearLastPulledAt(d)
  \/ \E d \in active : \E onLine \in BOOLEAN : SetNavigatorOnLine(d, onLine)
  \/ Tick
  \/ OtherClientPush

Spec == Init /\ [][Next]_vars

----------------------------------------------------------------------------
(* Properties *)

InSeq(x, seq) == \E i \in 1..Len(seq) : seq[i] = x

SeqToSet(seq) == {seq[i] : i \in 1..Len(seq)}

(* C1: in every reachable state, whatever enqueues, dequeues, initialize   *)
(* and pull reconciliations led to it, the change queue of a device holds  *)
(* at most one pending ChangeToPush per entity id.                         *)
C1_AtMostOnePendingChangePerId ==
  \A d \in Devices :
    \A i, j \in 1..Len(changesToPush[d]) :
      getChangeId(changesToPush[d][i].value) = getChangeId(changesToPush[d][j].value)
        => i = j

(* A second change for an id was merged into the entry of the first, next  *)
(* to the entry of another id.                                             *)
C1_Witness ==
  /\ event.kind = "queueChange"
  /\ event.previous # Undefined
  /\ event.queuedAfter # Undefined
  /\ Len(changesToPush[event.device]) = 2

(* C2: when the response to the push of a change arrives and the user has  *)
(* meanwhile enqueued for the same entity (the queue entry is no longer    *)
(* the pushed change), the entry is still queued after the response.       *)
C2_InterleavedChangeNotLost ==
  (/\ event.kind = "pushResponse"
   /\ event.queuedBefore # Undefined
   /\ event.queuedBefore # event.change)
    => event.queuedAfter = event.queuedBefore

(* C3: in a successful pull, every pulled symptom or metric whose id has   *)
(* no queued change reaches the comparison with the domain, and is         *)
(* delivered when it is not older than the local copy.                     *)
C3_UnqueuedPulledPassedThrough ==
  event.kind = "pulled" =>
    /\ \A x \in SeqToSet(event.pulled.symptoms) :
         QGet(event.queueBefore, x.id) = Undefined =>
           /\ InSeq(x, event.toCompareWithDomain.symptoms)
           /\ keepPulled(event.symptomsBefore, x) => InSeq(x, event.toShareWithDomain.symptoms)
    /\ \A x \in SeqToSet(event.pulled.metrics) :
         QGet(event.queueBefore, x.id) = Undefined =>
           /\ InSeq(x, event.toCompareWithDomain.metrics)
           /\ keepPulled(event.metricsBefore, x) => InSeq(x, event.toShareWithDomain.metrics)

(* C4: in a successful pull, for every pulled entity with a queued change  *)
(* on its id: a queued change dated strictly later than the pulled         *)
(* lastModified stays queued and the pulled entity is discarded; otherwise *)
(* the queued change is removed and the pulled entity passed through.      *)
C4_QueuedAgainstPulled ==
  event.kind = "pulled" =>
    \A table \in {"symptoms", "metrics"} :
      \A x \in SeqToSet(event.pulled[table]) :
        LET queued == QGet(event.queueBefore, x.id)
        IN  queued # Undefined =>
              IF getChangeDate(queued) > x.lastModified
              THEN /\ QGet(changesToPush[event.device], x.id) = queued
                   /\ ~InSeq(x, event.toCompareWithDomain[table])
              ELSE /\ QGet(changesToPush[event.device], x.id) = Undefined
                   /\ InSeq(x, event.toCompareWithDomain[table])

(* A pulled entity met a queued change of exactly its own date *)
C4_Witness ==
  /\ event.kind = "pulled"
  /\ \E table \in {"symptoms", "metrics"} :
       \E x \in SeqToSet(event.pulled[table]) :
         /\ QGet(event.queueBefore, x.id) # Undefined
         /\ getChangeDate(QGet(event.queueBefore, x.id)) = x.lastModified
         /\ InSeq(x, event.toCompareWithDomain[table])

(* The store of `table` on device d *)
storeOf(d, table) == IF table = "symptoms" THEN symptoms[d] ELSE metrics[d]

storeBefore(table) ==
  IF table = "symptoms" THEN event.symptomsBefore ELSE event.metricsBefore

(* C5: in a successful pull, an entity is handed to the domain only if it  *)
(* is absent locally or its lastModified is at least the local copy's, and *)
(* no local entity has been replaced by a strictly older version.          *)
C5_PulledNeverReplacesNewerLocal ==
  event.kind = "pulled" =>
    \A table \in {"symptoms", "metrics"} :
      /\ \A x \in SeqToSet(event.toShareWithDomain[table]) :
           \/ ~MapHas(storeBefore(table), x.id)
           \/ x.lastModified >= storeBefore(table)[x.id].lastModified
      /\ \A id \in DOMAIN storeBefore(table) :
           /\ MapHas(storeOf(event.device, table), id)
           /\ storeOf(event.device, table)[id].lastModified
                >= storeBefore(table)[id].lastModified

(* A pulled entity reached the comparison with the domain, was older than  *)
(* the local copy and was not delivered.                                   *)
C5_Witness ==
  /\ event.kind = "pulled"
  /\ \E table \in {"symptoms", "metrics"} :
       \E x \in SeqToSet(event.toCompareWithDomain[table]) :
         /\ MapHas(storeBefore(table), x.id)
         /\ x.lastModified < storeBefore(table)[x.id].lastModified
         /\ storeOf(event.device, table)[x.id] = storeBefore(table)[x.id]

(* C6: delivering pulled data queues nothing: after a successful pull      *)
(* every queue entry is an entry the queue held before the pull, the       *)
(* persisted queue holds nothing new, and no enqueue was signalled.        *)
C6_PulledDataNotEnqueued ==
  event.kind = "pulled" =>
    /\ \A i \in 1..Len(changesToPush[event.device]) :
         InSeq(changesToPush[event.device][i], event.queueBefore)
    /\ syncStatus[event.device] # "waitingToSync"
    /\ \A table \in {"symptoms", "metrics"} :
         \A x \in SeqToSet(event.toShareWithDomain[table]) :
           QGet(changesToPush[event.device], x.id) = Undefined

(* A pull delivered an entity to the domain, which stored and persisted it *)
C6_Witness ==
  /\ event.kind = "pulled"
  /\ Len(event.toShareWithDomain.symptoms) > 0
  /\ \A x \in SeqToSet(event.toShareWithDomain.symptoms) :
       /\ symptoms[event.device][x.id] = x
       /\ InSeq(serializeSymptom(x), storage[event.device].symptoms)

(* No request of the running tick is about this id *)
notInFlight(d, id) ==
  \A i \in 1..Len(pushes[d]) : getChangeId(pushes[d][i].change) # id

(* The order by change date of two changes enqueued one after the other;   *)
(* of two changes of the same date the one enqueued last is the latest.    *)
earliestOf(c1, c2) == IF getChangeDate(c2) < getChangeDate(c1) THEN c2 ELSE c1

latestOf(c1, c2) == IF getChangeDate(c2) < getChangeDate(c1) THEN c1 ELSE c2

(* C8: when a Delete is enqueued for an entity whose Add is still queued   *)
(* and was not handed to a push, the two cancel: the enqueue succeeds and  *)
(* the queue holds no entry for the id, so that nothing is left to send.   *)
C8_AddThenDeleteCancel ==
  (/\ event.kind = "queueChange"
   /\ event.previous # Undefined
   /\ getChangeKindCategory(event.previous) = "add"
   /\ getChangeKindCategory(event.current) = "delete"
   /\ notInFlight(event.device, getChangeId(event.current)))
    => /\ ~event.threw
       /\ event.queuedAfter = Undefined
       /\ QGet(changesToPush[event.device], getChangeId(event.current)) = Undefined

(* C9: after enqueue(c1); enqueue(c2) for one id with no push in between,  *)
(* the queue entry is the merge of the two, ordered by change date: Add    *)
(* then Update is an Add with the Update's payload, Update then Update the *)
(* latest Update, Update then Delete the Delete, Add then Delete no entry. *)
C9_EntryIsMergeOfTheTwo ==
  (/\ event.kind = "queueChange"
   /\ event.previous # Undefined
   /\ notInFlight(event.device, getChangeId(event.current)))
    => LET earliest == earliestOf(event.previous, event.current)
           latest == latestOf(event.previous, event.current)
           kinds == <<getChangeKindCategory(earliest), getChangeKindCategory(latest)>>
       IN  /\ kinds = <<"add", "update">> =>
                event.queuedAfter = [latest EXCEPT !.kind = earliest.kind]
           /\ kinds = <<"update", "update">> => event.queuedAfter = latest
           /\ kinds = <<"update", "delete">> => event.queuedAfter = latest
           /\ kinds = <<"add", "delete">> => event.queuedAfter = Undefined

(* C10: when the earliest by date of the two merged changes is a Delete,   *)
(* the enqueue does not fail and the queue holds the latest change.        *)
C10_DeleteEarliestKeepsLatest ==
  (/\ event.kind = "queueChange"
   /\ event.previous # Undefined
   /\ getChangeKindCategory(earliestOf(event.previous, event.current)) = "delete")
    => /\ ~event.threw
       /\ event.queuedAfter = latestOf(event.previous, event.current)

----------------------------------------------------------------------------
(* The status of a tick, its failures and its frame *)

(* The step ended a tick of device d that went as far as pushPendingChanges *)
tickCompletedOn(d) ==
  /\ event.kind \in {"pulled", "pushResponse"}
  /\ event.device = d
  /\ event.completed

(* The errors of a push that the API layer reports for a failed request *)
PushFailures == {"FailedToConnectWithApi", "FailedToUpdate", "Other"}

(* C11: whenever a tick publishes onlineAndSynced, its pull succeeded,     *)
(* every push it issued succeeded (or was a delete of an entity the remote *)
(* does not have) and the change queue is empty at that moment.            *)
C11_SyncedMeansAllPushedAndQueueEmpty ==
  \A d \in Devices :
    (tickCompletedOn(d) /\ syncStatus[d] = "onlineAndSynced")
      => /\ \A i \in 1..Len(event.results) : event.results[i] = "Ok"
         /\ Len(changesToPush[d]) = 0

(* C12: when the push of a queued change fails (no connection, an HTTP     *)
(* error other than a delete's 404, a response body that reports an        *)
(* error), the change stays queued as it was and the tick ends with        *)
(* status onlineButSyncFailed.                                             *)
C12_FailedPushKeepsChangeAndFailsTick ==
  \A d \in Devices :
    /\ (event.kind = "pushResponse" /\ event.device = d /\ event.result \in PushFailures)
         => event.queuedAfter = event.queuedBefore
    /\ (tickCompletedOn(d) /\ \E i \in 1..Len(event.results) : event.results[i] \in PushFailures)
         => syncStatus[d] = "onlineButSyncFailed"

(* C13: when the remote answers a queued DeleteSymptom or DeleteMetric     *)
(* with "not found", the change leaves the queue (in memory and            *)
(* persisted), the push is reported as Ok, and a tick without connection   *)
(* failures ends with status onlineAndSynced.                              *)
C13_DeleteNotFoundIsDequeued ==
  \A d \in Devices :
    (/\ event.kind = "pushResponse"
     /\ event.device = d
     /\ getChangeKindCategory(event.change) = "delete"
     /\ event.result = "DoesNotExist")
      => /\ QGet(changesToPush[d], getChangeId(event.change)) = Undefined
         /\ storage[d].changesToPush = saveChangesToPush(changesToPush[d])
         /\ \A i \in 1..Len(event.results) : event.results[i] # "DoesNotExist"
         /\ (event.completed /\ \A i \in 1..Len(event.results) : event.results[i] = "Ok")
              => syncStatus[d] = "onlineAndSynced"

(* A delete answered with "not found" ended a tick as onlineAndSynced *)
C13_Witness ==
  \E d \in Devices :
    /\ event.kind = "pushResponse"
    /\ event.device = d
    /\ event.change.kind \in {"DeleteSymptom", "DeleteMetric"}
    /\ event.result = "DoesNotExist"
    /\ event.completed
    /\ Len(changesToPush[d]) = 0
    /\ syncStatus[d] = "onlineAndSynced"

(* C14: a tick that finds the device offline or without configuration     *)
(* issues no remote call, leaves the queue, the domain, the settings and   *)
(* the persisted slots as they were, and publishes offline when the queue  *)
(* is empty and offlinePendingPush otherwise.  For the first tick, which   *)
(* App.initialize starts, "as they were" is what was loaded from storage.  *)
C14_OfflineTickTouchesNothing ==
  [][\A d \in Devices :
       /\ (/\ event'.kind = "syncProcessStarted"
           /\ event'.device = d
           /\ getDeviceConnectionStatus(settings[d], navigatorOnLine[d]) # "deviceReady")
            => /\ UNCHANGED <<remote, changesToPush, symptoms, autocompleter, metrics, settings, storage>>
               /\ pull'[d] = Undefined
               /\ pushes'[d] = <<>>
               /\ pc'[d] = "idle"
               /\ syncStatus'[d] = IF Len(changesToPush[d]) = 0
                                   THEN "offline" ELSE "offlinePendingPush"
       /\ (/\ event'.kind = "initialize"
           /\ event'.device = d
           /\ getDeviceConnectionStatus(settings'[d], navigatorOnLine[d]) # "deviceReady")
            => /\ UNCHANGED <<remote, storage>>
               /\ settings'[d] = getSettings(storage[d])
               /\ QValues(changesToPush'[d]) = getChangesToPush(storage[d])
               /\ pull'[d] = Undefined
               /\ pushes'[d] = <<>>
               /\ pc'[d] = "idle"
               /\ syncStatus'[d] = IF Len(changesToPush'[d]) = 0
                                   THEN "offline" ELSE "offlinePendingPush"]_vars

(* A tick found the device offline, with a change queued and a pull date set *)
C14_Witness ==
  \E d \in Devices :
    /\ event.kind = "syncProcessStarted"
    /\ event.device = d
    /\ getDeviceConnectionStatus(settings[d], navigatorOnLine[d]) = "offline"
    /\ MapHas(settings[d], "lastPulledAt")
    /\ Len(changesToPush[d]) > 0
    /\ syncStatus[d] = "offlinePendingPush"

(* The lastPulledAt entry of a settings object, present or not *)
lastPulled(s) == [k \in (DOMAIN s) \cap {"lastPulledAt"} |-> s[k]]

(* C15: lastPulledAt changes only by a successful pull or by the user's    *)
(* clear; a tick records its pull date when it issues readAll, and after a *)
(* successful pull lastPulledAt is that recorded date, in memory and       *)
(* persisted.                                                              *)
C15_LastPulledAtIsTheRecordedInstant ==
  [][\A d \in Devices :
       /\ (pc[d] # "pulling" /\ pc'[d] = "pulling") => pull'[d].currentPullDate = now
       /\ (event'.kind = "pulled" /\ event'.device = d)
            => /\ lastPulled(settings'[d]) = [k \in {"lastPulledAt"} |-> pull[d].currentPullDate]
               /\ lastPulled(getSettings(storage'[d])) = lastPulled(settings'[d])
       /\ (\/ (pc[d] # "off" /\ pc'[d] # "off"
                 /\ lastPulled(settings'[d]) # lastPulled(settings[d]))
           \/ lastPulled(storage'[d].settings) # lastPulled(storage[d].settings))
            => \/ event'.kind = "pulled" /\ event'.device = d
               \/ /\ event'.kind = "lastPulledAtCleared"
                  /\ event'.device = d
                  /\ lastPulled(settings'[d]) = EmptyMap]_vars

(* A pull succeeded whose response arrived a second or more after the      *)
(* instant the tick had recorded                                           *)
C15_Witness ==
  \E d \in Devices :
    /\ event.kind = "pulled"
    /\ event.device = d
    /\ MapHas(settings[d], "lastPulledAt")
    /\ settings[d]["lastPulledAt"] < now

(* C16: a tick whose pull fails ends there: the queue in memory and        *)
(* persisted, the symptom and metric stores, lastPulledAt and the server   *)
(* are unchanged, no push is issued, and the status is onlineButSyncFailed.*)
C16_FailedPullOnlySetsStatus ==
  [][\A d \in Devices :
       (event'.kind = "pullFailed" /\ event'.device = d)
         => /\ UNCHANGED <<remote, changesToPush, symptoms, autocompleter, metrics, metricsByDate,
                           settings, storage, pushes>>
            /\ pushes'[d] = <<>>
            /\ pull'[d] = Undefined
            /\ pc'[d] = "idle"
            /\ syncStatus'[d] = "onlineButSyncFailed"]_vars

(* A pull failed on a device that had a change queued and a pull date set *)
C16_Witness ==
  \E d \in Devices :
    /\ event.kind = "pullFailed"
    /\ event.device = d
    /\ Len(changesToPush[d]) > 0
    /\ MapHas(settings[d], "lastPulledAt")

(* C17: the published_since of a pull is lastPulledAt minus                *)
(* PULL_OVERLAP_SECONDS seconds, that is 30000 ms before lastPulledAt, and *)
(* epoch 0 when lastPulledAt is unset.                                     *)
C17_PublishedSinceIsThirtySecondsBack ==
  \A d \in Devices :
    (event.kind \in {"syncProcessStarted", "initialize"} /\ event.device = d
       /\ pc[d] = "pulling")
      => pull[d].publishedSince =
           IF MapHas(settings[d], "lastPulledAt")
           THEN settings[d]["lastPulledAt"] - PULL_OVERLAP_SECONDS * 1000
           ELSE 0

(* C18: ticks are serial: at most one syncProcess call is in progress, and *)
(* while it is, no other start is scheduled; a tick is in progress exactly *)
(* while its pull or its pushes are awaited.                               *)
C18_TicksAreSerial ==
  \A d \in Devices :
    /\ ticks[d].running + ticks[d].scheduled <= 1
    /\ ticks[d].running = 1 <=> pc[d] \in {"pulling", "pushing"}
    /\ event.kind \in {"syncProcessStarted", "initialize"} /\ event.device = d
         => ticks[d].running + ticks[d].scheduled = 1

(* A tick started by the delayed completion of the previous one is running *)
C18_Witness ==
  \E d \in Devices :
    /\ event.kind = "syncProcessStarted"
    /\ event.device = d
    /\ ticks[d].running = 1
    /\ MapHas(settings[d], "lastPulledAt")

(* C19: within a tick the push of a change is issued only after the push   *)
(* of every change enqueued before it has completed.                       *)
C19_PushesOneAfterTheOther ==
  \A d \in Devices :
    \A j \in 1..Len(pushes[d]) :
      \A i \in 1..(j - 1) : pushes[d][i].result # "pending"

(* C20: the persisted changesToPush slot holds the queue that is in memory *)
C20_PersistedQueueEqualsMemory ==
  \A d \in Devices :
    pc[d] # "off" => storage[d].changesToPush = saveChangesToPush(changesToPush[d])

(* The buckets of the day index that hold metric id *)
bucketsOf(index, id) == {day \in DOMAIN index : id \in index[day]}

(* C23: on a running device the day index agrees with the metric map: a    *)
(* stored metric is in the bucket of its day and in no other bucket, and   *)
(* no bucket holds the id of a metric that is not stored.                  *)
C23_DateIndexConsistentWithMetrics ==
  \A d \in Devices :
    pc[d] # "off" =>
      /\ \A id \in DOMAIN metrics[d] :
           bucketsOf(metricsByDate[d], id) = {getMetricDate(metrics[d][id])}
      /\ \A day \in DOMAIN metricsByDate[d] :
           metricsByDate[d][day] \subseteq DOMAIN metrics[d]

(* App.initialize rehydrated exactly what the changesToPush slot held, and *)
(* syncStatus$ got waitingToSync exactly when the slot held a change       *)
rehydratedWhatWasPersisted ==
  event.kind = "initialize" =>
    /\ event.rehydrated = event.persisted
    /\ QValues(changesToPush[event.device]) = event.persisted
    /\ (event.status = "waitingToSync") <=> (Len(event.persisted) >= 1)

(* The pull of the tick that App.initialize started has succeeded *)
firstPullAfterRestart == event.kind = "pulled" /\ event.afterInitialize

(* The pull returned an entity of the change's id that is not older than   *)
(* the change                                                              *)
pulledNotOlder(change) ==
  \E table \in {"symptoms", "metrics"} :
    \E x \in SeqToSet(event.pulled[table]) :
      x.id = getChangeId(change) /\ x.lastModified >= getChangeDate(change)

(* The statement as the specification words it: every rehydrated change is *)
(* pushed by the first tick of a ready device.                             *)
C21_EveryRehydratedChangeIsPushed ==
  /\ rehydratedWhatWasPersisted
  /\ firstPullAfterRestart => event.pushed = QValues(event.queueBefore)

(* C21: on restart every persisted change is rehydrated, and the status is *)
(* waitingToSync exactly when there is one; when the pull of the first     *)
(* tick of a ready device succeeds, that tick sends one request for each   *)
(* rehydrated change, except the changes that the pull meets with an       *)
(* entity that is not older: these are dropped and not pushed.             *)
C21_RehydratedPushedOnceUnlessPulledNotOlder ==
  /\ rehydratedWhatWasPersisted
  /\ firstPullAfterRestart =>
       /\ \A i, j \in 1..Len(event.pushed) :
            getChangeId(event.pushed[i]) = getChangeId(event.pushed[j]) => i = j
       /\ SeqToSet(event.pushed) \subseteq SeqToSet(QValues(event.queueBefore))
       /\ \A change \in SeqToSet(QValues(event.queueBefore)) :
            InSeq(change, event.pushed) <=> ~pulledNotOlder(change)

(* A restart rehydrated a change and the first tick has sent its request *)
C21_Witness ==
  /\ firstPullAfterRestart
  /\ Len(event.queueBefore) >= 1
  /\ event.pushed = QValues(event.queueBefore)

(* The last step was a local add or update of an entity of `table` *)
locallyStored(table) ==
  /\ event.kind = "queueChange"
  /\ event.current.kind \in (IF table = "symptoms" THEN {"AddSymptom", "UpdateSymptom"}
                              ELSE {"AddMetric", "UpdateMetric"})

removedByReconciliation(change) ==
  /\ event.kind = "pulled"
  /\ InSeq(change, QValues(event.queueBefore))
  /\ QGet(changesToPush[event.device], getChangeId(change)) = Undefined

(* C34: a tick pulls, reconciles, then pushes: no push request exists      *)
(* while the readAll of the tick is in flight, and the requests issued     *)
(* when the response arrives are the entries of the reconciled queue, so   *)
(* that no change removed by the reconciliation is pushed in the tick.     *)
C34_PushesFollowTheReconciliation ==
  /\ \A d \in Devices : pc[d] = "pulling" => pushes[d] = <<>>
  /\ event.kind = "pulled" =>
       /\ \A i \in 1..Len(event.pushed) :
            /\ QGet(changesToPush[event.device], getChangeId(event.pushed[i])) = event.pushed[i]
            /\ ~removedByReconciliation(event.pushed[i])
       /\ \A change \in SeqToSet(QValues(event.queueBefore)) :
            removedByReconciliation(change) =>
              \A i \in 1..Len(pushes[event.device]) :
                getChangeId(pushes[event.device][i].change) # getChangeId(change)

(* A pull removed one queued change and the tick went on to push another *)
C34_Witness ==
  /\ event.kind = "pulled"
  /\ Len(event.pushed) > 0
  /\ pc[event.device] = "pushing"
  /\ \E change \in SeqToSet(QValues(event.queueBefore)) : removedByReconciliation(change)

(* C35: no change that the application enqueues reaches the `unsupported   *)
(* variant` assertion of mergeChanges: queueChange never throws.           *)
C35_QueueChangeNeverThrows ==
  event.kind = "queueChange" => ~event.threw

(* C36: when an Update is enqueued for an id whose queued Update has the   *)
(* same lastModified, the newly enqueued one counts as the latest: the     *)
(* queue entry is the second Update, payload included.                     *)
C36_EqualDatesKeepTheSecondUpdate ==
  (/\ event.kind = "queueChange"
   /\ event.previous # Undefined
   /\ getChangeKindCategory(event.previous) = "update"
   /\ getChangeKindCategory(event.current) = "update"
   /\ getChangeDate(event.previous) = getChangeDate(event.current))
    => /\ ~event.threw
       /\ event.queuedAfter = event.current

(* C38: update and delete of a metric that the store holds complete        *)
(* normally, however the metric came into the store: the removal from the  *)
(* index of the days never finds the bucket of the metric missing.         *)
C38_UpdateAndDeleteOfAPresentMetricComplete ==
  event.kind # "updateMetricThrew"

(* The queries typed in the search box *)
SearchQueries == {"", "h", "N"}

(* The symptom has a word that starts with the token, whatever the case *)
matchesToken(symptom, token) ==
  \E word \in symptomToWords(symptom) : startsWith(word, toLowerCase(token))

(* The symptoms of the map that every token of the query matches *)
symptomsMatching(symptomMap, query) ==
  {symptom \in {symptomMap[id] : id \in DOMAIN symptomMap} :
     \A token \in queryTokens(Characters(query)) : matchesToken(symptom, token)}

(* C39: whatever initialize, add, update, delete and addPulledData did so  *)
(* far, searchByPrefix returns the symptoms that the map holds now and     *)
(* that every token of the query matches by prefix.                        *)
C39_SearchReturnsTheSymptomsOfTheMap ==
  \A d \in Devices : pc[d] # "off" =>
    \A query \in SearchQueries :
      searchByPrefix(symptoms[d], autocompleter[d], query)
        = symptomsMatching(symptoms[d], query)

(* C40: while the readAll request of a tick is in flight the published     *)
(* status is pulling, and while the push requests of the tick are in       *)
(* flight it is pushing.                                                   *)
C40_StatusNamesThePhaseInFlight ==
  \A d \in Devices :
    /\ (pc[d] = "pulling" /\ event.kind \in {"initialize", "syncProcessStarted"})
         => syncStatus[d] = "pulling"
    /\ (pc[d] = "pushing" /\ event.kind = "pulled") => syncStatus[d] = "pushing"

----------------------------------------------------------------------------
(* Two devices of one user, both synchronised on the same symptom          *)

(* The symptom both devices and the server hold at the start *)
SharedSymptom == [id |-> "sym_1", name |-> "headache", lastModified |-> 0 - 1000]

SharedStorage ==
  [ConfiguredStorage EXCEPT !.symptoms = <<serializeSymptom(SharedSymptom)>>]

InitLWW ==
  /\ clock = 0
  /\ active = Devices
  /\ remote = [EmptyTables EXCEPT !.symptoms =
                 MapSet(EmptyMap, SharedSymptom.id,
                        [item |-> SharedSymptom, publishedAt |-> SharedSymptom.lastModified])]
  /\ usedIds = {SharedSymptom.id}
  /\ pc = [d \in Devices |-> "off"]
  /\ symptoms = [d \in Devices |-> EmptyMap]
  /\ autocompleter = [d \in Devices |-> EmptyAutocompleter]
  /\ metrics = [d \in Devices |-> EmptyMap]
  /\ metricsByDate = [d \in Devices |-> EmptyMap]
  /\ settings = [d \in Devices |-> EmptyMap]
  /\ navigatorOnLine = [d \in Devices |-> TRUE]
  /\ changesToPush = [d \in Devices |-> <<>>]
  /\ syncStatus = [d \in Devices |-> "onlineAndSynced"]
  /\ storage = [d \in Devices |-> SharedStorage]
  /\ pull = [d \in Devices |-> Undefined]
  /\ pushes = [d \in Devices |-> <<>>]
  /\ ticks = [d \in Devices |-> NoTicks]
  /\ pushAllCall = [d \in Devices |-> Undefined]
  /\ opCount = [user |-> 0, env |-> 0]
  /\ event = NoEvent

(* The one edit of a device: a rename of the shared symptom while the      *)
(* device still holds the version it started from, at an instant of its    *)
(* own (no other device holds a version of that date).                     *)
EditSharedSymptom(d) ==
  /\ MapGet(symptoms[d], SharedSymptom.id) = SharedSymptom
  /\ \A other \in Devices :
       MapHas(symptoms[other], SharedSymptom.id) =>
         symptoms[other][SharedSymptom.id].lastModified # newDate
  /\ UpdateSymptom(d, SharedSymptom.id)
  /\ symptoms'[d][SharedSymptom.id].lastModified = newDate

NextLWW ==
  \/ \E d \in active : AppInitialize(d)
  \/ \E d \in active : SyncProcessStart(d)
  \/ \E d \in active : PullSucceeded(d)
  \/ \E d \in active : \E response \in ApiResponses : PushResponse(d, 1, response)
  \/ \E d \in active : EditSharedSymptom(d)
  \/ Tick

SpecLWW == InitLWW /\ [][NextLWW]_vars

(* Device d has nothing to push and nothing left to pull: it is between    *)
(* two ticks, its queue is empty and its next pull would ask for rows      *)
(* published after every row of the server.                                *)
Settled(d) ==
  /\ pc[d] = "idle"
  /\ Len(changesToPush[d]) = 0
  /\ MapHas(settings[d], "lastPulledAt")
  /\ \A id \in DOMAIN remote.symptoms :
       remote.symptoms[id].publishedAt < getLastPullDate(settings[d])

BothEdited == opCount.user = 2

(* C7: once both devices have made their edit of the shared symptom, at    *)
(* distinct dates, and have completed the sync ticks that push and pull    *)
(* them, both hold the same version, the one of the larger lastModified.   *)
C7_LastWriterWinsOnBothDevices ==
  (BothEdited /\ \A d \in Devices : Settled(d))
    => \A d1, d2 \in Devices :
         /\ symptoms[d1][SharedSymptom.id] = symptoms[d2][SharedSymptom.id]
         /\ symptoms[d1][SharedSymptom.id].lastModified
              >= remote.symptoms[SharedSymptom.id].item.lastModified

----------------------------------------------------------------------------
(* Settings page, "Push all": App.pushAll and RemoteStorage.pushAll, which *)
(* sends every symptom and metric of the device to POST /push-all.         *)

(* What the server keeps of a /push-all request: every entity but the      *)
(* ones it reports as failed                                               *)
servePushAll(tables, request, failed) ==
  [symptoms |->
     [id \in (DOMAIN tables.symptoms) \cup (DOMAIN IndexById(request.symptoms) \ failed) |->
        IF id \in DOMAIN IndexById(request.symptoms) \ failed
        THEN [item |-> IndexById(request.symptoms)[id], publishedAt |-> clock]
        ELSE tables.symptoms[id]],
   metrics |->
     [id \in (DOMAIN tables.metrics) \cup (DOMAIN IndexById(request.metrics) \ failed) |->
        IF id \in DOMAIN IndexById(request.metrics) \ failed
        THEN [item |-> IndexById(request.metrics)[id], publishedAt |-> clock]
        ELSE tables.metrics[id]]]

(* The ids of the entities of a /push-all request *)
requestIds(request) ==
  (DOMAIN IndexById(request.symptoms)) \cup (DOMAIN IndexById(request.metrics))

(* RemoteStorage.pushAll up to its await: the connectivity check, then the *)
(* request with every entity the managers hold                             *)
PushAll(d) ==
  /\ opCount.user < MaxUserOps
  /\ opCount' = [opCount EXCEPT !.user = @ + 1]
  /\ pc[d] # "off"
  /\ pushAllCall[d] = Undefined
  /\ IF getDeviceConnectionStatus(settings[d], navigatorOnLine[d]) # "deviceReady"
     THEN /\ syncStatus' = [syncStatus EXCEPT ![d] =
                              IF Len(changesToPush[d]) = 0 THEN "offline"
                              ELSE "offlinePendingPush"]
          /\ event' = [kind |-> "pushAll", device |-> d, result |-> "Err"]
          /\ UNCHANGED pushAllCall
     ELSE /\ syncStatus' = [syncStatus EXCEPT ![d] = "pushing"]
          /\ pushAllCall' = [pushAllCall EXCEPT ![d] =
               [symptoms |-> MapValues(symptoms[d]), metrics |-> MapValues(metrics[d])]]
          /\ event' = [kind |-> "pushAll", device |-> d, result |-> "pending"]
  /\ UNCHANGED <<clock, active, remote, usedIds, pc, symptoms, autocompleter, metrics, metricsByDate,
                 settings, navigatorOnLine, changesToPush, storage, pull, pushes, ticks>>

(* The match{} of pushAll: what it returns and what it publishes as status *)
pushAllOutcome(status, response, failed) ==
  IF response = "ok"
  THEN IF failed # {}
       THEN [result |-> "Err", syncStatus |-> "onlineButSyncFailed"]
       ELSE [result |-> "Ok", syncStatus |-> "onlineAndSynced"]
  ELSE [result |-> "Err", syncStatus |-> status]

(* A pushAll that, once the server has everything, takes the queue for     *)
(* pushed and records the instant as the last pull                         *)
PushAllResponseSettlesQueue(d, response, failed) ==
  /\ pushAllCall[d] # Undefined
  /\ response \in {"ok", "unreachable", "httpError"}
  /\ failed \subseteq requestIds(pushAllCall[d])
  /\ response # "ok" => failed = {}
  /\ LET outcome == pushAllOutcome(syncStatus[d], response, failed)
     IN  /\ syncStatus' = [syncStatus EXCEPT ![d] = outcome.syncStatus]
         /\ remote' = IF response = "ok" THEN servePushAll(remote, pushAllCall[d], failed)
                      ELSE remote
         /\ changesToPush' = [changesToPush EXCEPT ![d] =
                                IF outcome.result = "Ok" THEN <<>> ELSE @]
         /\ settings' = [settings EXCEPT ![d] =
                           IF outcome.result = "Ok" THEN setLastPulledAt(@, now) ELSE @]
         /\ storage' = [storage EXCEPT ![d] =
              [@ EXCEPT !.changesToPush = saveChangesToPush(changesToPush'[d]),
                        !.settings = saveSettings(settings'[d])]]
         /\ event' = [kind |-> "pushAllResponse", device |-> d, result |-> outcome.result,
                      response |-> response, failed |-> failed]
  /\ pushAllCall' = [pushAllCall EXCEPT ![d] = Undefined]
  /\ UNCHANGED <<opCount, clock, active, usedIds, pc, symptoms, autocompleter, metrics, metricsByDate,
                 navigatorOnLine, pull, pushes, ticks>>

(* The response to POST /push-all and the rest of RemoteStorage.pushAll *)
PushAllResponse(d, response, failed) ==
  /\ pushAllCall[d] # Undefined
  /\ response \in {"ok", "unreachable", "httpError"}
  /\ failed \subseteq requestIds(pushAllCall[d])
  /\ response # "ok" => failed = {}
  /\ LET outcome == pushAllOutcome(syncStatus[d], response, failed)
     IN  /\ syncStatus' = [syncStatus EXCEPT ![d] = outcome.syncStatus]
         /\ remote' = IF response = "ok" THEN servePushAll(remote, pushAllCall[d], failed)
                      ELSE remote
         /\ event' = [kind |-> "pushAllResponse", device |-> d, result |-> outcome.result,
                      response |-> response, failed |-> failed]
  /\ pushAllCall' = [pushAllCall EXCEPT ![d] = Undefined]
  /\ UNCHANGED <<opCount, clock, active, usedIds, pc, symptoms, autocompleter, metrics, metricsByDate,
                 settings, navigatorOnLine, changesToPush, storage, pull, pushes, ticks>>

NextPushAll ==
  \/ \E d \in active : AppInitialize(d)
  \/ \E d \in active : SyncProcessStart(d)
  \/ \E d \in active : \E response \in ApiResponses : PullFailed(d, response)
  \/ \E d \in active : PullSucceeded(d)
  \/ \E d \in active : \E i \in 1..2 : \E response \in ApiResponses :
       PushResponse(d, i, response)
  \/ \E d \in active : \E name \in SymptomNames : AddSymptom(d, name)
  \/ \E d \in active : \E id \in SymptomIds : \E intensity \in MetricIntensities :
       AddMetric(d, id, intensity)
  \/ \E d \in active : \E value \in ApiTokens \cup {""} : SetApiToken(d, value)
  \/ \E d \in active : \E onLine \in BOOLEAN : SetNavigatorOnLine(d, onLine)
  \/ \E d \in active : PushAll(d)
  \/ \E d \in active : \E response \in ApiResponses :
       \E failed \in SUBSET (SymptomIds \cup MetricIds) : PushAllResponse(d, response, failed)
  \/ Tick

SpecPushAll == Init /\ [][NextPushAll]_vars

(* C28: RemoteStorage.pushAll leaves the queue and lastPulledAt alone: in  *)
(* each of its steps, the refusal of a device that is not ready, the start *)
(* of the request and the handling of its response, whatever the response, *)
(* the queue in memory, the persisted queue and the settings, lastPulledAt *)
(* among them, stay as they were.                                          *)
C28_PushAllLeavesQueueAndLastPulledAt ==
  [][event'.kind \in {"pushAll", "pushAllResponse"} =>
       /\ changesToPush' = changesToPush
       /\ storage' = storage
       /\ settings' = settings
       /\ lastPulled(settings'[event'.device]) = lastPulled(settings[event'.device])]_vars

(* pushAll has succeeded on a device that has a change queued and a pull   *)
(* recorded                                                                *)
C28_Witness ==
  /\ event.kind = "pushAllResponse"
  /\ event.result = "Ok"
  /\ Len(changesToPush[event.device]) > 0
  /\ MapHas(settings[event.device], "lastPulledAt")

(* C37: once pushAll has returned, whatever the answer to POST /push-all,  *)
(* the published status is no longer pushing.                              *)
C37_PushAllEndsWithAFinalStatus ==
  event.kind = "pushAllResponse" => syncStatus[event.device] # "pushing"

----------------------------------------------------------------------------
(* The managers called on any id: the calls of the pages, and the same     *)
(* calls with an id that the store does not hold.                          *)

ManagerSymptomIds == {"sym_1", "sym_2"}

ManagerMetricIds == {"met_1", "met_2"}

(* generateSymptomId with a single draw, the candidate returned as it is *)
generateSymptomIdOnce(store) == ManagerSymptomIds

(* generateSymptomId: the ids the loop can return; it draws again while    *)
(* the store holds the candidate.                                          *)
generateSymptomId(store) == {id \in ManagerSymptomIds : ~MapHas(store, id)}

generateMetricId(store) == {id \in ManagerMetricIds : ~MapHas(store, id)}

(* SymptomManager.add, and handleSymptomChanges on SymptomAdded *)
SymptomManagerAdd(d, name) ==
  /\ opCount.user < MaxUserOps
  /\ opCount' = [opCount EXCEPT !.user = @ + 1]
  /\ pc[d] # "off"
  /\ \E id \in generateSymptomId(symptoms[d]) :
       LET symptom == [id |-> id, name |-> name, lastModified |-> now]
           newSymptoms == MapSet(symptoms[d], id, symptom)
       IN  /\ symptoms' = [symptoms EXCEPT ![d] = newSymptoms]
           /\ autocompleter' = [autocompleter EXCEPT ![d] = autocompleterAddItem(@, symptom)]
           /\ usedIds' = usedIds \cup {id}
           /\ QueueChange(d, [kind |-> "AddSymptom", symptom |-> symptom],
                          "symptoms", saveAllSymptoms(newSymptoms))
  /\ UNCHANGED <<pushAllCall, ticks, clock, active, remote, pc, metrics, metricsByDate, settings,
                 navigatorOnLine, pull, pushes>>

(* SymptomManager.update that stores the symptom whether or not the store  *)
(* holds its id                                                            *)
SymptomManagerUpdateUpserts(d, id) ==
  /\ opCount.user < MaxUserOps
  /\ opCount' = [opCount EXCEPT !.user = @ + 1]
  /\ pc[d] # "off"
  /\ \E name \in SymptomNames :
       LET updated == [id |-> id, name |-> name, lastModified |-> newDate]
           newSymptoms == MapSet(symptoms[d], id, updated)
       IN  /\ symptoms' = [symptoms EXCEPT ![d] = newSymptoms]
           /\ autocompleter' = [autocompleter EXCEPT ![d] = autocompleterAddItem(@, updated)]
           /\ QueueChange(d, [kind |-> "UpdateSymptom", symptom |-> updated],
                          "symptoms", saveAllSymptoms(newSymptoms))
  /\ UNCHANGED <<pushAllCall, ticks, clock, active, remote, usedIds, pc, metrics, metricsByDate, settings,
                 navigatorOnLine, pull, pushes>>

(* SymptomManager.update: Err(FailedToUpdateSymptom) when the store does   *)
(* not hold the id, before anything is stored or emitted                   *)
SymptomManagerUpdate(d, id) ==
  IF MapHas(symptoms[d], id)
  THEN UpdateSymptom(d, id)
  ELSE /\ opCount.user < MaxUserOps
       /\ opCount' = [opCount EXCEPT !.user = @ + 1]
       /\ pc[d] # "off"
       /\ event' = [kind |-> "updateFailed", device |-> d, table |-> "symptoms", id |-> id,
                    result |-> [kind |-> "FailedToUpdateSymptom"], emitted |-> <<>>]
       /\ UNCHANGED <<pushAllCall, ticks, clock, active, remote, usedIds, pc, symptoms, autocompleter, metrics,
                      metricsByDate, settings, navigatorOnLine, changesToPush, syncStatus,
                      storage, pull, pushes>>

(* SymptomManager.delete: returns at once when the store does not hold the *)
(* id                                                                      *)
SymptomManagerDelete(d, id) ==
  IF MapHas(symptoms[d], id)
  THEN DeleteSymptom(d, id)
  ELSE /\ opCount.user < MaxUserOps
       /\ opCount' = [opCount EXCEPT !.user = @ + 1]
       /\ pc[d] # "off"
       /\ event' = [kind |-> "deleteIgnored", device |-> d, table |-> "symptoms", id |-> id,
                    emitted |-> <<>>]
       /\ UNCHANGED <<pushAllCall, ticks, clock, active, remote, usedIds, pc, symptoms, autocompleter, metrics,
                      metricsByDate, settings, navigatorOnLine, changesToPush, syncStatus,
                      storage, pull, pushes>>

(* MetricManager.add (the index is not touched), and handleMetricChanges *)
MetricManagerAdd(d, symptomId, intensity, notes, date) ==
  /\ opCount.user < MaxUserOps
  /\ opCount' = [opCount EXCEPT !.user = @ + 1]
  /\ pc[d] # "off"
  /\ \E id \in generateMetricId(metrics[d]) :
       LET metric == [id |-> id, symptomId |-> symptomId, intensity |-> intensity,
                      notes |-> notes, date |-> date, lastModified |-> now]
           newMetrics == MapSet(metrics[d], id, metric)
       IN  /\ metrics' = [metrics EXCEPT ![d] = newMetrics]
           /\ usedIds' = usedIds \cup {id}
           /\ QueueChange(d, [kind |-> "AddMetric", metric |-> metric],
                          "history", saveAllMetrics(newMetrics))
  /\ UNCHANGED <<pushAllCall, ticks, clock, active, remote, pc, symptoms, autocompleter, metricsByDate, settings,
                 navigatorOnLine, pull, pushes>>

(* MetricManager.duplicate of one id: a copy dated now() is added; an id   *)
(* that the store does not hold is skipped.                                *)
MetricManagerDuplicate(d, id) ==
  IF MapHas(metrics[d], id)
  THEN MetricManagerAdd(d, metrics[d][id].symptomId, metrics[d][id].intensity,
                        metrics[d][id].notes, now)
  ELSE /\ opCount.user < MaxUserOps
       /\ opCount' = [opCount EXCEPT !.user = @ + 1]
       /\ pc[d] # "off"
       /\ event' = [kind |-> "duplicateIgnored", device |-> d, table |-> "metrics", id |-> id,
                    emitted |-> <<>>]
       /\ UNCHANGED <<pushAllCall, ticks, clock, active, remote, usedIds, pc, symptoms, autocompleter, metrics,
                      metricsByDate, settings, navigatorOnLine, changesToPush, syncStatus,
                      storage, pull, pushes>>

(* MetricManager.update: Err(FailedToUpdateMetric) when the store does not *)
(* hold the id                                                             *)
MetricManagerUpdate(d, id) ==
  IF MapHas(metrics[d], id)
  THEN UpdateMetric(d, id)
  ELSE /\ opCount.user < MaxUserOps
       /\ opCount' = [opCount EXCEPT !.user = @ + 1]
       /\ pc[d] # "off"
       /\ event' = [kind |-> "updateFailed", device |-> d, table |-> "metrics", id |-> id,
                    result |-> [kind |-> "FailedToUpdateMetric"], emitted |-> <<>>]
       /\ UNCHANGED <<pushAllCall, ticks, clock, active, remote, usedIds, pc, symptoms, autocompleter, metrics,
                      metricsByDate, settings, navigatorOnLine, changesToPush, syncStatus,
                      storage, pull, pushes>>

(* MetricManager.delete: returns at once when the store does not hold the  *)
(* id                                                                      *)
MetricManagerDelete(d, id) ==
  IF MapHas(metrics[d], id)
  THEN DeleteMetric(d, id)
  ELSE /\ opCount.user < MaxUserOps
       /\ opCount' = [opCount EXCEPT !.user = @ + 1]
       /\ pc[d] # "off"
       /\ event' = [kind |-> "deleteIgnored", device |-> d, table |-> "metrics", id |-> id,
                    emitted |-> <<>>]
       /\ UNCHANGED <<pushAllCall, ticks, clock, active, remote, usedIds, pc, symptoms, autocompleter, metrics,
                      metricsByDate, settings, navigatorOnLine, changesToPush, syncStatus,
                      storage, pull, pushes>>

(* initialize of a manager without its guard: it loads whatever it is      *)
(* given, every time                                                       *)
managerInitializeEveryTime(initialized, contents, items) ==
  [threw |-> FALSE, error |-> "none", contents |-> items, emitted |-> <<"Initialized">>]

(* SymptomManager / MetricManager / SettingsManager.initialize: an         *)
(* initialized manager throws unreachable(...) before it touches anything  *)
managerInitialize(initialized, contents, items) ==
  IF initialized
  THEN [threw |-> TRUE, error |-> "unreachable", contents |-> contents, emitted |-> <<>>]
  ELSE [threw |-> FALSE, error |-> "none", contents |-> items, emitted |-> <<"Initialized">>]

Managers == {"SymptomManager", "MetricManager", "SettingsManager"}

(* initialize called on a manager of a running App, with nothing or with   *)
(* what the storage holds                                                  *)
InitializeAgain(d, manager) ==
  /\ opCount.user < MaxUserOps
  /\ opCount' = [opCount EXCEPT !.user = @ + 1]
  /\ pc[d] # "off"
  /\ \E store \in {EmptyStorage, storage[d]} :
       LET ofSymptoms ==
             managerInitialize(pc[d] # "off", symptoms[d], IndexById(getSymptoms(store)))
           ofMetrics ==
             managerInitialize(pc[d] # "off",
               [metrics |-> metrics[d], metricsByDate |-> metricsByDate[d]],
               [metrics |-> IndexById(getMetrics(store)),
                metricsByDate |-> indexMetrics(EmptyMap, getMetrics(store))])
           ofSettings ==
             managerInitialize(pc[d] # "off", settings[d], getSettings(store))
           outcome == CASE manager = "SymptomManager" -> ofSymptoms
                        [] manager = "MetricManager" -> ofMetrics
                        [] manager = "SettingsManager" -> ofSettings
       IN  /\ symptoms' = IF manager = "SymptomManager"
                          THEN [symptoms EXCEPT ![d] = ofSymptoms.contents] ELSE symptoms
           /\ autocompleter' = IF manager = "SymptomManager" /\ ~ofSymptoms.threw
                               THEN [autocompleter EXCEPT ![d] =
                                       autocompleterInitialize(getSymptoms(store))]
                               ELSE autocompleter
           /\ metrics' = IF manager = "MetricManager"
                         THEN [metrics EXCEPT ![d] = ofMetrics.contents.metrics] ELSE metrics
           /\ metricsByDate' = IF manager = "MetricManager"
                               THEN [metricsByDate EXCEPT ![d] = ofMetrics.contents.metricsByDate]
                               ELSE metricsByDate
           /\ settings' = IF manager = "SettingsManager"
                          THEN [settings EXCEPT ![d] = ofSettings.contents] ELSE settings
           /\ event' = [kind |-> "initializeAgain", device |-> d, manager |-> manager,
                        threw |-> outcome.threw, error |-> outcome.error,
                        emitted |-> outcome.emitted]
  /\ UNCHANGED <<pushAllCall, ticks, clock, active, remote, usedIds, pc, navigatorOnLine, changesToPush,
                 syncStatus, storage, pull, pushes>>

NextManagers ==
  \/ \E d \in active : AppInitialize(d)
  \/ \E d \in active : \E manager \in Managers : InitializeAgain(d, manager)
  \/ \E d \in active : \E name \in SymptomNames : SymptomManagerAdd(d, name)
  \/ \E d \in active : \E id \in ManagerSymptomIds : SymptomManagerUpdate(d, id)
  \/ \E d \in active : \E id \in ManagerSymptomIds : SymptomManagerDelete(d, id)
  \/ \E d \in active : \E symptomId \in ManagerSymptomIds :
       \E intensity \in MetricIntensities : MetricManagerAdd(d, symptomId, intensity, "", now)
  \/ \E d \in active : \E id \in ManagerMetricIds : MetricManagerDuplicate(d, id)
  \/ \E d \in active : \E id \in ManagerMetricIds : MetricManagerUpdate(d, id)
  \/ \E d \in active : \E id \in ManagerMetricIds : MetricManagerDelete(d, id)
  \/ Tick

SpecManagers == Init /\ [][NextManagers]_vars

(* C24: an update or a delete of an id that the store does not hold        *)
(* changes nothing: the update returns FailedToUpdate*, the delete returns *)
(* silently, the maps, the index, the queue, the persisted slots and the   *)
(* status stay as they were and no change event is emitted; and an update  *)
(* or delete that did store or queue something was on an id the store held.*)
C24_MissingIdChangesNothing ==
  [][/\ event'.kind \in {"updateFailed", "deleteIgnored"} =>
          /\ ~MapHas(storeOf(event'.device, event'.table), event'.id)
          /\ event'.emitted = <<>>
          /\ event'.kind = "updateFailed" =>
               event'.result.kind = (IF event'.table = "symptoms"
                                     THEN "FailedToUpdateSymptom" ELSE "FailedToUpdateMetric")
          /\ UNCHANGED <<symptoms, autocompleter, metrics, metricsByDate, changesToPush, storage,
                         syncStatus>>
     /\ \A table \in {"symptoms", "metrics"} :
          (/\ event'.kind = "queueChange"
           /\ event'.current.kind \in (IF table = "symptoms"
                                       THEN {"UpdateSymptom", "DeleteSymptom"}
                                       ELSE {"UpdateMetric", "DeleteMetric"}))
            => MapHas(storeOf(event'.device, table), getChangeId(event'.current))]_vars

(* An update was refused for an id that a store holding another symptom    *)
(* does not hold                                                           *)
C24_Witness ==
  /\ event.kind = "updateFailed"
  /\ event.table = "symptoms"
  /\ symptoms[event.device] # EmptyMap
  /\ Len(changesToPush[event.device]) > 0

(* The statement as the specification words it: the second initialize      *)
(* fails with InitializationFailed.                                        *)
C25_SecondInitializeFailsTyped ==
  event.kind = "initializeAgain" =>
    event.threw /\ event.error = "InitializationFailed" /\ event.emitted = <<>>

(* C25: initialize on a manager of a running App throws the unreachable    *)
(* error, emits no Initialized event and leaves the manager's contents,    *)
(* and everything else, as they were.                                      *)
C25_SecondInitializeThrowsAndChangesNothing ==
  [][event'.kind = "initializeAgain" =>
       /\ event'.threw
       /\ event'.error = "unreachable"
       /\ event'.emitted = <<>>
       /\ UNCHANGED <<symptoms, autocompleter, metrics, metricsByDate, settings, changesToPush, storage,
                      syncStatus>>]_vars

(* initialize was called again on a manager whose store is not empty *)
C25_Witness ==
  /\ event.kind = "initializeAgain"
  /\ event.manager = "SymptomManager"
  /\ symptoms[event.device] # EmptyMap

----------------------------------------------------------------------------
(* A configured device that starts offline, is edited offline and then     *)
(* comes online, with a server that answers every request                  *)

InitOffline ==
  /\ clock = 0
  /\ active = {"A"}
  /\ remote = EmptyTables
  /\ usedIds = {}
  /\ pc = [d \in Devices |-> "off"]
  /\ symptoms = [d \in Devices |-> EmptyMap]
  /\ autocompleter = [d \in Devices |-> EmptyAutocompleter]
  /\ metrics = [d \in Devices |-> EmptyMap]
  /\ metricsByDate = [d \in Devices |-> EmptyMap]
  /\ settings = [d \in Devices |-> EmptyMap]
  /\ navigatorOnLine = [d \in Devices |-> FALSE]
  /\ changesToPush = [d \in Devices |-> <<>>]
  /\ syncStatus = [d \in Devices |-> "onlineAndSynced"]
  /\ storage = [d \in Devices |-> IF d \in active THEN ConfiguredStorage ELSE EmptyStorage]
  /\ pull = [d \in Devices |-> Undefined]
  /\ pushes = [d \in Devices |-> <<>>]
  /\ ticks = [d \in Devices |-> NoTicks]
  /\ pushAllCall = [d \in Devices |-> Undefined]
  /\ opCount = [user |-> 0, env |-> 0]
  /\ event = NoEvent

(* The server's answer to the request of pushes[d][i] arrives *)
PushServed(d, i) ==
  \E response \in ApiResponses :
    /\ PushResponse(d, i, response)
    /\ response = serve(remote, pushes[d][i].change).response

(* An edit made while the browser reports the device offline *)
EditOffline(d) ==
  /\ ~navigatorOnLine[d]
  /\ \/ \E name \in SymptomNames : AddSymptom(d, name)
     \/ \E id \in SymptomIds : UpdateSymptom(d, id)
     \/ \E id \in SymptomIds : DeleteSymptom(d, id)
     \/ \E id \in SymptomIds : \E intensity \in MetricIntensities : AddMetric(d, id, intensity)
     \/ \E id \in MetricIds : UpdateMetric(d, id)
     \/ \E id \in MetricIds : DeleteMetric(d, id)

NextOffline ==
  \/ \E d \in active : AppInitialize(d)
  \/ \E d \in active : SyncProcessStart(d)
  \/ \E d \in active : PullSucceeded(d)
  \/ \E d \in active : \E i \in 1..2 : PushServed(d, i)
  \/ \E d \in active : EditOffline(d)
  \/ \E d \in active : SetNavigatorOnLine(d, TRUE)
  \/ Tick

(* The timer of processStart$ fires, and every request gets its answer *)
FairOffline ==
  \A d \in Devices :
    /\ WF_vars(SyncProcessStart(d))
    /\ WF_vars(PullSucceeded(d))
    /\ WF_vars(\E i \in 1..2 : PushServed(d, i))

SpecOffline == InitOffline /\ [][NextOffline]_vars /\ FairOffline

----------------------------------------------------------------------------
(* The loop of ticks under every answer a request can get, the answers     *)
(* with status 200 and a body without the expected members among them      *)

(* syncProcess ends in a rejection: innerProcess threw, SyncProcessCompleted *)
(* is not emitted and processStart$ has nothing to delay                   *)
syncProcessRejected(t) == [t EXCEPT !.running = @ - 1]

(* readAll gets a 200 whose body has no `symptoms` array (the configured   *)
(* URL is served by something else): the Ok branch of readAll iterates     *)
(* data.symptoms and throws a TypeError, which nothing catches.            *)
PullUnexpectedBody(d) ==
  /\ pc[d] = "pulling"
  /\ pc' = [pc EXCEPT ![d] = "idle"]
  /\ pull' = [pull EXCEPT ![d] = Undefined]
  /\ ticks' = [ticks EXCEPT ![d] = syncProcessRejected(@)]
  /\ event' = [kind |-> "syncProcessRejected", device |-> d, error |-> "TypeError"]
  /\ UNCHANGED <<pushAllCall, opCount, clock, active, remote, usedIds, symptoms, autocompleter, metrics,
                 metricsByDate, settings, navigatorOnLine, changesToPush, syncStatus, storage,
                 pushes>>

NextLoop ==
  \/ \E d \in active : AppInitialize(d)
  \/ \E d \in active : SyncProcessStart(d)
  \/ \E d \in active : \E response \in ApiResponses : PullFailed(d, response)
  \/ \E d \in active : PullSucceeded(d)
  \/ \E d \in active : PullUnexpectedBody(d)
  \/ \E d \in active : \E i \in 1..2 : \E response \in ApiResponses :
       PushResponse(d, i, response)
  \/ \E d \in active : \E name \in SymptomNames : AddSymptom(d, name)
  \/ \E d \in active : \E id \in SymptomIds : \E intensity \in MetricIntensities :
       AddMetric(d, id, intensity)
  \/ \E d \in active : \E onLine \in BOOLEAN : SetNavigatorOnLine(d, onLine)
  \/ Tick

(* The timer of processStart$ fires and every awaited request is answered, *)
(* one way or another                                                      *)
FairLoop ==
  \A d \in Devices :
    /\ WF_vars(SyncProcessStart(d))
    /\ WF_vars(\/ \E response \in ApiResponses : PullFailed(d, response)
               \/ PullSucceeded(d)
               \/ PullUnexpectedBody(d))
    /\ WF_vars(\E i \in 1..2 : \E response \in ApiResponses : PushResponse(d, i, response))

SpecLoop == Init /\ [][NextLoop]_vars /\ FairLoop

(* C29: a tick that has started completes, whatever the connection status  *)
(* and the answers of the server, and its completion schedules the next    *)
(* tick: the loop never halts.                                             *)
C29_StartedTickCompletesAndSchedulesNext ==
  \A d \in Devices :
    /\ (ticks[d].running = 1) ~> (ticks[d].running = 0 /\ ticks[d].scheduled = 1)
    /\ [](pc[d] # "off" => ticks[d].running + ticks[d].scheduled = 1)

----------------------------------------------------------------------------
(* Two devices of one user that hold the same symptom; one deletes it      *)

(* The symptom page of device A: the user deletes the shared symptom *)
DeleteSharedSymptom(d) ==
  /\ d = "A"
  /\ DeleteSymptom(d, SharedSymptom.id)

NextDeletion ==
  \/ \E d \in active : AppInitialize(d)
  \/ \E d \in active : SyncProcessStart(d)
  \/ \E d \in active : PullSucceeded(d)
  \/ \E d \in active : \E response \in ApiResponses : PushResponse(d, 1, response)
  \/ \E d \in active : DeleteSharedSymptom(d)
  \/ Tick

SpecDeletion == InitLWW /\ [][NextDeletion]_vars

(* Device A has deleted the shared symptom and its delete has reached the  *)
(* server, and device B has just completed a tick whose pull was answered  *)
(* by the server without the symptom                                       *)
DeletedAndSynced ==
  /\ ~MapHas(symptoms["A"], SharedSymptom.id)
  /\ pc["A"] = "idle"
  /\ Len(changesToPush["A"]) = 0
  /\ ~MapHas(remote.symptoms, SharedSymptom.id)
  /\ event.kind = "pulled"
  /\ event.device = "B"
  /\ event.completed
  /\ Len(changesToPush["B"]) = 0

(* C30: once A has deleted an entity that B holds, A's tick has pushed the *)
(* delete and B has completed a tick after it, B no longer holds the       *)
(* entity.                                                                 *)
C30_DeletionReachesTheOtherDevice ==
  DeletedAndSynced => ~MapHas(symptoms["B"], SharedSymptom.id)

----------------------------------------------------------------------------
(* Pure functions of the pages, applied to inputs drawn from bounded sets. *)
(* The input and the result are held in `event`; nothing else moves.       *)

stateVars == <<clock, active, remote, usedIds, pc, symptoms, autocompleter, metrics, metricsByDate, settings,
               navigatorOnLine, changesToPush, syncStatus, storage, pull, pushes,
               ticks, pushAllCall, opCount>>

(* Every variable but `event` as the constructors leave it *)
Constructed ==
  /\ clock = 0
  /\ active = {"A"}
  /\ remote = EmptyTables
  /\ usedIds = {}
  /\ pc = [d \in Devices |-> "off"]
  /\ symptoms = [d \in Devices |-> EmptyMap]
  /\ autocompleter = [d \in Devices |-> EmptyAutocompleter]
  /\ metrics = [d \in Devices |-> EmptyMap]
  /\ metricsByDate = [d \in Devices |-> EmptyMap]
  /\ settings = [d \in Devices |-> EmptyMap]
  /\ navigatorOnLine = [d \in Devices |-> TRUE]
  /\ changesToPush = [d \in Devices |-> <<>>]
  /\ syncStatus = [d \in Devices |-> "onlineAndSynced"]
  /\ storage = [d \in Devices |-> EmptyStorage]
  /\ pull = [d \in Devices |-> Undefined]
  /\ pushes = [d \in Devices |-> <<>>]
  /\ ticks = [d \in Devices |-> NoTicks]
  /\ pushAllCall = [d \in Devices |-> Undefined]
  /\ opCount = [user |-> 0, env |-> 0]

----------------------------------------------------------------------------
(* DailyReminder: the last metric of every symptom of the last days *)

MILLISECONDS_PER_DAY == 86400000

(* The render happens on the third day of the epoch at noon *)
ReminderNow == 2 * MILLISECONDS_PER_DAY + MILLISECONDS_PER_DAY \div 2

(* Dates of the metrics: yesterday at noon, today at 06:00 and at 09:00,   *)
(* and tomorrow at noon (a date the user picked in the History page)       *)
ReminderDates ==
  {ReminderNow - MILLISECONDS_PER_DAY,
   ReminderNow - MILLISECONDS_PER_DAY \div 4,
   ReminderNow - MILLISECONDS_PER_DAY \div 8,
   ReminderNow + MILLISECONDS_PER_DAY}

ReminderSymptomIds == {"sym_a", "sym_b"}

MaxReminderMetrics == 3

ReminderMetricId(i) == CASE i = 1 -> "met_1" [] i = 2 -> "met_2" [] OTHER -> "met_3"

(* isSameDay compares year, month and day of the month in the local time   *)
(* of the device; the device is in UTC.                                    *)
isSameDay(a, b) == a \div MILLISECONDS_PER_DAY = b \div MILLISECONDS_PER_DAY

(* sortMetricsByDate: from newest to oldest, equal dates keep their order *)
sortedNewestFirst(list) ==
  \A i \in 1..Len(list) : \A j \in 1..Len(list) : i < j => list[i].date >= list[j].date

(* What getMetricsOfLastNDays can hand over: metrics with distinct ids,    *)
(* from newest to oldest                                                   *)
ReminderInputs ==
  {list \in UNION {[1..n -> [id : {"met_1", "met_2", "met_3"},
                             symptomId : ReminderSymptomIds,
                             date : ReminderDates,
                             intensity : MetricIntensities,
                             notes : {""},
                             lastModified : {0}]] : n \in 0..MaxReminderMetrics} :
     /\ \A i \in 1..Len(list) : list[i].id = ReminderMetricId(i)
     /\ sortedNewestFirst(list)}

enrich(metric, recordedToday, recordedInThePast) ==
  [id |-> metric.id, symptomId |-> metric.symptomId, date |-> metric.date,
   intensity |-> metric.intensity, notes |-> metric.notes,
   lastModified |-> metric.lastModified,
   recordedToday |-> recordedToday, recordedInThePast |-> recordedInThePast]

(* The loop of enrichAndSquashMetrics from position i on: `result` and     *)
(* `metricIndexPerSymptom` are the locals of the function.                 *)
RECURSIVE enrichAndSquashLoop(_, _, _, _, _)
enrichAndSquashLoop(list, today, i, result, metricIndexPerSymptom) ==
  IF i > Len(list) THEN result
  ELSE LET metric == list[i]
           symptom == metric.symptomId
           belongsToToday == isSameDay(metric.date, today)
           newSymptom == ~MapHas(metricIndexPerSymptom, symptom)
       IN  IF newSymptom
           THEN enrichAndSquashLoop(list, today, i + 1,
                  Append(result, enrich(metric, belongsToToday, ~belongsToToday)),
                  MapSet(metricIndexPerSymptom, symptom, Len(result) + 1))
           ELSE LET index == metricIndexPerSymptom[symptom]
                    displayedMetric == result[index]
                    updated == IF belongsToToday
                               THEN [displayedMetric EXCEPT !.recordedToday = TRUE]
                               ELSE [displayedMetric EXCEPT !.recordedInThePast = TRUE]
                IN  enrichAndSquashLoop(list, today, i + 1,
                      [result EXCEPT ![index] = updated], metricIndexPerSymptom)

enrichAndSquashMetrics(list, today) ==
  enrichAndSquashLoop(list, today, 1, <<>>, EmptyMap)

InitReminder ==
  /\ Constructed
  /\ \E list \in ReminderInputs :
       event = [kind |-> "lastMetrics", metrics |-> list, now |-> ReminderNow]

(* DailyReminder renders: pastMetrics = enrichAndSquashMetrics(lastMetrics, now()) *)
DailyReminderRender ==
  /\ event.kind = "lastMetrics"
  /\ event' = [kind |-> "pastMetrics", metrics |-> event.metrics, now |-> event.now,
               result |-> enrichAndSquashMetrics(event.metrics, event.now)]
  /\ UNCHANGED stateVars

NextReminder == DailyReminderRender

SpecReminder == InitReminder /\ [][NextReminder]_vars

(* The metrics of `list` of one symptom *)
metricsOfSymptom(list, symptomId) ==
  {list[i] : i \in {j \in 1..Len(list) : list[j].symptomId = symptomId}}

(* The position in `list` of the first metric of the symptom *)
firstOccurrence(list, symptomId) ==
  CHOOSE i \in 1..Len(list) :
    /\ list[i].symptomId = symptomId
    /\ \A j \in 1..(i - 1) : list[j].symptomId # symptomId

(* One entry per symptom of the input, each the newest metric of its       *)
(* symptom, in the order in which the symptoms first occur                 *)
squashedToTheNewest(list, result) ==
  /\ {result[k].symptomId : k \in 1..Len(result)} = {list[i].symptomId : i \in 1..Len(list)}
  /\ \A k \in 1..Len(result) : \A l \in 1..Len(result) :
       k < l => /\ result[k].symptomId # result[l].symptomId
                /\ firstOccurrence(list, result[k].symptomId)
                     < firstOccurrence(list, result[l].symptomId)
  /\ \A k \in 1..Len(result) :
       LET metric == list[firstOccurrence(list, result[k].symptomId)]
       IN  result[k] = enrich(metric, result[k].recordedToday, result[k].recordedInThePast)

(* C32: of metrics ordered from newest to oldest, enrichAndSquashMetrics   *)
(* returns one entry per symptom, the newest metric of the symptom, in the *)
(* order of first occurrence; recordedToday says that some metric of the   *)
(* symptom is of the day of `now`, recordedInThePast that some metric of   *)
(* the symptom is of an earlier day.                                       *)
C32_OnePerSymptomWithTodayAndPast ==
  event.kind = "pastMetrics" =>
    /\ squashedToTheNewest(event.metrics, event.result)
    /\ \A k \in 1..Len(event.result) :
         LET ofSymptom == metricsOfSymptom(event.metrics, event.result[k].symptomId)
         IN  /\ event.result[k].recordedToday
                  <=> \E m \in ofSymptom : isSameDay(m.date, event.now)
             /\ event.result[k].recordedInThePast
                  <=> \E m \in ofSymptom :
                        m.date \div MILLISECONDS_PER_DAY < event.now \div MILLISECONDS_PER_DAY

----------------------------------------------------------------------------
(* The autocompleter on its own: items with names of several words, and    *)
(* queries of several tokens                                               *)

SearchItems ==
  {[id |-> "sym_1", name |-> "Foo bar", lastModified |-> 0],
   [id |-> "sym_2", name |-> "bar Baz", lastModified |-> 0],
   [id |-> "sym_3", name |-> "foo", lastModified |-> 0],
   [id |-> "sym_4", name |-> "nausea", lastModified |-> 0]}

AutocompleterQueries == {"", " ", "fo", "BA", "fo ba", "baz  bar", "foo baz"}

allButAutocompleter ==
  <<clock, active, remote, usedIds, pc, symptoms, metrics, metricsByDate, settings,
    navigatorOnLine, changesToPush, syncStatus, storage, pull, pushes,
    ticks, pushAllCall, opCount>>

(* completer.initialize({ items }) on a new AutocompleterV2 *)
AutocompleterInitialize(d, items) ==
  /\ event = NoEvent
  /\ autocompleter' = [autocompleter EXCEPT ![d] = autocompleterInitialize(SetToSeq(items))]
  /\ event' = [kind |-> "initialize", device |-> d, items |-> items]
  /\ UNCHANGED allButAutocompleter

AutocompleterAddItem(d, item) ==
  /\ event # NoEvent
  /\ item \notin event.items
  /\ autocompleter' = [autocompleter EXCEPT ![d] = autocompleterAddItem(@, item)]
  /\ event' = [kind |-> "addItem", device |-> d, items |-> event.items \cup {item}]
  /\ UNCHANGED allButAutocompleter

AutocompleterRemoveItem(d, item) ==
  /\ event # NoEvent
  /\ item \in event.items
  /\ autocompleter' = [autocompleter EXCEPT ![d] = autocompleterRemoveItem(@, item)]
  /\ event' = [kind |-> "removeItem", device |-> d, items |-> event.items \ {item}]
  /\ UNCHANGED allButAutocompleter

(* completer.search(query) *)
AutocompleterSearch(d, query) ==
  /\ event # NoEvent
  /\ event' = [kind |-> "search", device |-> d, items |-> event.items, query |-> query,
               result |-> autocompleterSearch(autocompleter[d], Characters(query))]
  /\ UNCHANGED <<allButAutocompleter, autocompleter>>

NextSearch ==
  \/ \E d \in active : \E items \in SUBSET SearchItems : AutocompleterInitialize(d, items)
  \/ \E d \in active : \E item \in SearchItems : AutocompleterAddItem(d, item)
  \/ \E d \in active : \E item \in SearchItems : AutocompleterRemoveItem(d, item)
  \/ \E d \in active : \E query \in AutocompleterQueries : AutocompleterSearch(d, query)

InitSearch == Constructed /\ event = NoEvent

SpecSearch == InitSearch /\ [][NextSearch]_vars

(* C33: the tokens of a query are combined with AND: of a query with a     *)
(* token, search returns the items in which every token is the prefix,     *)
(* whatever the case, of some word of the item.                            *)
C33_SearchIsTheIntersectionOverTokens ==
  (event.kind = "search" /\ queryTokens(Characters(event.query)) # {}) =>
    event.result =
      {item \in event.items :
         \A token \in queryTokens(Characters(event.query)) : matchesToken(item, token)}

(* `fo ba` finds `Foo bar` and leaves out `bar Baz` and `foo`, each of     *)
(* which one token matches                                                 *)
C33_Witness ==
  /\ event.kind = "search"
  /\ event.query = "fo ba"
  /\ event.items = SearchItems
  /\ event.result = {[id |-> "sym_1", name |-> "Foo bar", lastModified |-> 0]}

----------------------------------------------------------------------------
(* The server answers GET /get-all with an item that the client cannot     *)
(* decode among the others: a date that Date.parse rejects, an intensity   *)
(* that is not of the enum                                                 *)

UndecodableSymptoms ==
  {[id |-> "sym_9", name |-> "nausea", updated_at |-> [text |-> "yesterday"]]}

UndecodableMetrics ==
  {[id |-> "met_9", symptom_id |-> "sym_1", date |-> toISOString(0),
    updated_at |-> toISOString(0), intensity |-> "extreme", notes |-> ""],
   [id |-> "met_9", symptom_id |-> "sym_1", date |-> [text |-> "yesterday"],
    updated_at |-> toISOString(0), intensity |-> "medium", notes |-> ""]}

(* `item` before the k-th element of `list` *)
insertedAt(list, k, item) ==
  SubSeq(list, 1, k - 1) \o <<item>> \o SubSeq(list, k, Len(list))

(* The bodies that hold the items of `data` and one more that is undecodable *)
withUndecodableItem(data) ==
  {[data EXCEPT !.symptoms = insertedAt(@, k, item)] :
     k \in 1..(Len(data.symptoms) + 1), item \in UndecodableSymptoms}
  \cup
  {[data EXCEPT !.metrics = insertedAt(@, k, item)] :
     k \in 1..(Len(data.metrics) + 1), item \in UndecodableMetrics}

ReadAllWithUndecodableItem(d) ==
  /\ pc[d] = "pulling"
  /\ \E data \in withUndecodableItem(
                   getAllResponseBody(serveGetAll(remote, pull[d].publishedSince))) :
       ReadAllAnswered(d, data)

NextDecoding ==
  \/ \E d \in active : AppInitialize(d)
  \/ \E d \in active : SyncProcessStart(d)
  \/ \E d \in active : ReadAllWithUndecodableItem(d)
  \/ \E d \in active : PullSucceeded(d)
  \/ \E d \in active : \E i \in 1..2 : \E response \in ApiResponses :
       PushResponse(d, i, response)
  \/ \E d \in active : \E name \in SymptomNames : AddSymptom(d, name)
  \/ \E d \in active : \E id \in SymptomIds : \E intensity \in MetricIntensities :
       AddMetric(d, id, intensity)
  \/ OtherClientPush
  \/ Tick

SpecDecoding == Init /\ [][NextDecoding]_vars

(* The items of a body that decode / that do not *)
wellFormedSymptoms(data) ==
  {x \in SeqToSet(data.symptoms) : "iso" \in DOMAIN x.updated_at}

wellFormedMetrics(data) ==
  {x \in SeqToSet(data.metrics) :
     /\ "iso" \in DOMAIN x.updated_at
     /\ "iso" \in DOMAIN x.date
     /\ x.intensity \in {"low", "medium", "high"}}

hasUndecodableItem(data) ==
  \/ wellFormedSymptoms(data) # SeqToSet(data.symptoms)
  \/ wellFormedMetrics(data) # SeqToSet(data.metrics)

(* C31: an item of a get-all response that cannot be decoded does not fail *)
(* the pull: readAll succeeds with the well-formed symptoms and metrics of *)
(* the body and without the others, and the tick goes on: lastPulledAt is  *)
(* set to the pull date and the reconciled queue is pushed.                *)
C31_UndecodableItemsAreSkipped ==
  [][\A d \in Devices :
       (event'.kind = "pulled" /\ event'.device = d /\ hasUndecodableItem(event'.data)) =>
         /\ SeqToSet(event'.pulled.symptoms)
              = {symptomApiToDomain(x).value : x \in wellFormedSymptoms(event'.data)}
         /\ SeqToSet(event'.pulled.metrics)
              = {metricApiToDomain(x).value : x \in wellFormedMetrics(event'.data)}
         /\ Len(event'.pulled.symptoms) + Len(event'.pulled.metrics) + 1
              = Len(event'.data.symptoms) + Len(event'.data.metrics)
         /\ lastPulled(settings'[d]) = [k \in {"lastPulledAt"} |-> pull[d].currentPullDate]
         /\ event'.pushed = QValues(changesToPush'[d])
         /\ pc'[d] = IF event'.completed THEN "idle" ELSE "pushing"
         /\ Len(event'.pushed) = 0 => syncStatus'[d] = "onlineAndSynced"]_vars

(* A body with an undecodable item and a symptom that the device did not   *)
(* hold: the symptom is in the store after the pull                        *)
C31_Witness ==
  /\ event.kind = "pulled"
  /\ hasUndecodableItem(event.data)
  /\ Len(event.pulled.symptoms) > 0
  /\ event.symptomsBefore = EmptyMap
  /\ MapHas(symptoms[event.device], event.pulled.symptoms[1].id)

====
